---- MODULE Spec2Model ----
(***************************************************************************)
(* Verification model of the Weibo trending scraper.                       *)
(*                                                                         *)
(* Two variants of the pipeline live in the repository and are modelled    *)
(* side by side (the variable `variant` selects one for a behaviour):      *)
(*   "main"      src/weibo/main.py                                         *)
(*   "enhanced"  src/weibo_enhanced/test,py.py                             *)
(*                                                                         *)
(* Python values are encoded as follows.                                   *)
(*   Optional[T]  None is <<>>, a present value v is <<v>>                 *)
(*   str          a title is a TLA+ string; a text that is scanned         *)
(*                character by character is a sequence of one-character    *)
(*                strings                                                  *)
(*   file         a record [kind, data]: kind "absent" (no such file),     *)
(*                "empty" (zero bytes) or "json" (the text json.dumps      *)
(*                produced for the list `data`)                            *)
(*   call result  [ok |-> TRUE, val] for a returned value, [ok |-> FALSE,   *)
(*                exc] for a raised exception                              *)
(* The wall-clock stamp that create_list puts into the README and the      *)
(* archive is not part of the model.                                       *)
(***************************************************************************)
EXTENDS Integers, Sequences, FiniteSets, TLC

VARIABLES
    variant,       \* which script runs: "main" or "enhanced"
    pc,            \* bootstrap: "idle" (not started), "loop" (at the top of the while loop), "gather" (in asyncio.gather), "done" (returned); get_top_20_hot_posts: "idle", "attempt", "login", "collect", "pages", "gather", "done"
    retry_count,   \* bootstrap's local retry_count
    fetches,       \* calls of fetch_trending_data_with_playwright made by the run
    delays,        \* the seconds the run slept, one entry per sleep
    got_list,      \* some fetch of the run returned a payload with ok == 1 and a card group
    status,        \* how the latest iteration of the loop, or the latest save, ended
    saves,         \* direct calls of the save functions made so far
    hour,          \* the hour of the wall clock
    hourly,        \* api/<date>/<hour>.json, one file per hour
    summary,       \* api/<date>/summary.json
    archive,       \* archives/<date>.md
    readme,        \* README.md
    pre,           \* the files as they were before the run, or before the latest save
    words,         \* the list the latest successful gather handed to the save functions
    site,          \* what the remote site answers during the run: the topics and, per topic, the two enrichment answers
    fn_in,         \* the argument of the function under test
    fn_out,        \* its result, <<>> before the call
    attempt,       \* get_top_20_hot_posts' local attempt
    cookies_for_context,  \* its local of that name: the cookies the next browser context is made with
    context,       \* the cookies the open browser context was made with, None while no context is open
    session,       \* the session files auth_state.json and weibo_cookies.json
    login_results, \* one entry per call of _login_and_update_cookies, in call order
    walls,         \* the attempts whose first result page did not show a card
    failures,      \* what failed in each of them, in order: the goto or the wait for the card
    initial_posts_data,   \* get_top_20_hot_posts' list of that name: the cards collected, each by its detail URL
    loaded,        \* the result pages a goto was issued for, in order
    tasks,         \* the number of coroutines handed to the asyncio.gather that is running
    started,       \* how many of them have begun
    finished       \* how many of them have returned

vars == <<variant, pc, retry_count, fetches, delays, got_list, status, saves, hour,
          hourly, summary, archive, readme, pre, words, site, fn_in, fn_out,
          attempt, cookies_for_context, context, session, login_results, walls,
          failures, initial_posts_data, loaded, tasks, started, finished>>

files == <<hourly, summary, archive, readme>>

(* the state of bootstrap and its files, and the state of the post        *)
(* collector and of the running gather                                    *)
scraper == <<retry_count, fetches, delays, got_list, status, saves, hour,
             hourly, summary, archive, readme, pre, words>>

collector == <<attempt, cookies_for_context, context, session, login_results, walls,
               failures, initial_posts_data, loaded, tasks, started, finished>>

-----------------------------------------------------------------------------
(* Bounds of the model *)

MaxItems == 2
MaxSaves == 2
MaxText == 4
MaxHours == 2
MaxTopics == 6
MaxAnswers == 3
MaxStamp == 3

(* Program constants *)

MAX_RETRIES == 5
MAX_POSTS_TO_FETCH == 20
MAX_SEARCH_PAGES == 2

-----------------------------------------------------------------------------
(* Python values *)

None == <<>>

Some(v) == <<v>>

Truthy(opt) == opt # None /\ opt[1] # ""

Returned(v) == [ok |-> TRUE, val |-> v]

Raised(e) == [ok |-> FALSE, exc |-> e]

Max(a, b) == IF b > a THEN b ELSE a

Range(s) == {s[i] : i \in 1..Len(s)}

SeqsUpTo(S, n) == UNION {[1..k -> S] : k \in 0..n}

-----------------------------------------------------------------------------
(* Texts.  A character is a one-character string; "wan" stands for the     *)
(* character U+4E07 (ten thousand) and "sup2" for U+00B2 (superscript two, *)
(* a character str.isdigit accepts and int() rejects).                     *)

DecimalChars == {"0", "1", "2", "3", "4", "5", "6", "7", "8", "9"}

IsDigit(c) == c \in DecimalChars \cup {"sup2"}

DigitValue(c) ==
    CASE c = "0" -> 0 [] c = "1" -> 1 [] c = "2" -> 2 [] c = "3" -> 3 [] c = "4" -> 4
      [] c = "5" -> 5 [] c = "6" -> 6 [] c = "7" -> 7 [] c = "8" -> 8 [] c = "9" -> 9

RECURSIVE IntOfDigits(_)
IntOfDigits(ds) ==
    IF ds = <<>> THEN 0
    ELSE 10 * IntOfDigits(SubSeq(ds, 1, Len(ds) - 1)) + DigitValue(ds[Len(ds)])

(* int(text) for a text made of characters that passed str.isdigit *)
ParseInt(ds) ==
    IF ds = <<>> \/ \E i \in 1..Len(ds) : ds[i] \notin DecimalChars
    THEN Raised("ValueError")
    ELSE Returned(IntOfDigits(ds))

(* a faulty variant of extract_numbers: only the first run of digits, as   *)
(* re.search(r'\d+', s) would take it                                      *)
extract_first_number(s) ==
    IF s = None \/ s[1] = <<>> THEN Returned(0)
    ELSE LET t == s[1]
             at == {i \in 1..Len(t) : IsDigit(t[i])}
         IN  IF at = {} THEN ParseInt(<<>>)
             ELSE LET a == CHOOSE i \in at : \A j \in at : i <= j
                      b == CHOOSE j \in a..Len(t) :
                               /\ \A k \in a..j : IsDigit(t[k])
                               /\ j = Len(t) \/ ~IsDigit(t[j + 1])
                  IN  ParseInt(SubSeq(t, a, b))

extract_numbers(s) ==
    IF s = None \/ s[1] = <<>> THEN Returned(0)
    ELSE ParseInt(SelectSeq(s[1], IsDigit))

-----------------------------------------------------------------------------
(* What the remote site can answer *)

Titles == {"A", "B"}

Wan52 == <<"5", ".", "2", "wan">>

Ads == <<"a", "d", "s">>

(* desc_extr of a raw topic: absent, "5.2wan", "ads" *)
HeatStrings == {None, Some(Wan52), Some(Ads)}

(* one element of card_group.  The raw topics carry no category and no    *)
(* description of their own; scheme is the topic's link.                  *)
RawItems ==
    [desc : Titles, desc_extr : HeatStrings, promotion : BOOLEAN,
     category : {None}, description : {None}, scheme : {Some("u")}]

RawLists == SeqsUpTo(RawItems, MaxItems)

(* what fetch_trending_detail returns: {} after a failure, read through   *)
(* .get(), or the five fields of a parsed page                            *)
NoDetail ==
    [category |-> None, desc |-> None, read_count |-> None,
     discuss_count |-> None, origin |-> None]

Detail1 ==
    [category |-> Some("c"), desc |-> Some("d"), read_count |-> Some(1),
     discuss_count |-> Some(2), origin |-> Some(1)]

Detail2 ==
    [category |-> Some(""), desc |-> Some(""), read_count |-> Some(2),
     discuss_count |-> Some(1), origin |-> Some(0)]

DetailOutcomes == {NoDetail, Detail1, Detail2}

Post1 ==
    [author |-> "u1", content |-> "t1", timestamp |-> "10:00",
     forwards_count |-> 1, comments_count |-> 0, likes_count |-> 2]

(* what fetch_topic_posts returns *)
PostOutcomes == {<<>>, <<Post1>>}

-----------------------------------------------------------------------------
(* WeiboItem and process_item.  An item is held as the dictionary to_dict  *)
(* makes of it; the enhanced script's items also carry posts.              *)

OrElse(a, b) == IF Truthy(a) THEN a ELSE b

WeiboItem(variant_, item, detail, posts, hot) ==
    IF variant_ = "main"
    THEN [title |-> item.desc,
          category |-> OrElse(detail.category, item.category),
          description |-> OrElse(detail.desc, item.description),
          url |-> item.scheme,
          hot |-> hot,
          ads |-> item.promotion,
          read_count |-> detail.read_count,
          discuss_count |-> detail.discuss_count,
          origin |-> detail.origin]
    ELSE [title |-> item.desc,
          category |-> OrElse(detail.category, item.category),
          description |-> OrElse(detail.desc, item.description),
          url |-> item.scheme,
          hot |-> hot,
          ads |-> FALSE,
          read_count |-> detail.read_count,
          discuss_count |-> detail.discuss_count,
          origin |-> detail.origin,
          posts |-> posts]

(* bootstrap.process_item: the result, or the exception extract_numbers raised *)
process_item(variant_, item, detail, posts) ==
    LET hot == extract_numbers(item.desc_extr)
    IN  IF hot.ok
        THEN Returned(WeiboItem(variant_, item, detail, posts, hot.val))
        ELSE hot

(* a faulty variant of Selected: the promoted topics are not skipped *)
SelectedAll(variant_, items, i) == [k \in 1..(Len(items) - i + 1) |-> i + k - 1]

(* the positions of the topics bootstrap makes a task for: the enhanced   *)
(* script skips the promoted ones, main.py keeps them                     *)
RECURSIVE Selected(_, _, _)
Selected(variant_, items, i) ==
    IF i > Len(items) THEN <<>>
    ELSE (IF variant_ = "enhanced" /\ items[i].promotion THEN <<>> ELSE <<i>>)
         \o Selected(variant_, items, i + 1)

(* asyncio.gather over the tasks: the list of the results in task order,  *)
(* or the exception of a task that raised                                 *)
gather_items(variant_, items, details, posts) ==
    LET sel == Selected(variant_, items, 1)
        res == [k \in 1..Len(sel) |->
                   process_item(variant_, items[sel[k]], details[sel[k]], posts[sel[k]])]
    IN  IF \E k \in 1..Len(sel) : ~res[k].ok
        THEN Raised("ValueError")
        ELSE Returned([k \in 1..Len(sel) |-> res[k].val])

-----------------------------------------------------------------------------
(* Files *)

Absent == [kind |-> "absent", data |-> <<>>]

EmptyFile == [kind |-> "empty", data |-> <<>>]

(* the file holding json.dumps(list) *)
JsonFile(list) == [kind |-> "json", data |-> list]

TextFile(data) == [kind |-> "text", data |-> data]

(* read_file creates a missing file empty and returns '' *)
read_file(f) == IF f.kind = "absent" THEN EmptyFile ELSE f

IndexOfTitle(list, t) ==
    IF \E i \in 1..Len(list) : list[i].title = t
    THEN CHOOSE i \in 1..Len(list) :
             list[i].title = t /\ \A j \in 1..(i - 1) : list[j].title # t
    ELSE 0

(* sorted(list, key=hot, reverse=True): stable, equal keys keep their order *)
InsertByHot(sorted, x) ==
    LET n == Cardinality({i \in 1..Len(sorted) : sorted[i].hot >= x.hot})
    IN  SubSeq(sorted, 1, n) \o <<x>> \o SubSeq(sorted, n + 1, Len(sorted))

RECURSIVE SortByHot(_)
SortByHot(list) ==
    IF list = <<>> THEN <<>>
    ELSE InsertByHot(SortByHot(SubSeq(list, 1, Len(list) - 1)), list[Len(list)])

(* {word.title: word for word in words}.values(): one entry per title, at *)
(* a faulty variant of UniqueByTitle: the list is written as it came *)
KeepAll(ws, acc) == acc \o ws

(* the place of the title's first occurrence, holding its last occurrence *)
RECURSIVE UniqueByTitle(_, _)
UniqueByTitle(ws, acc) ==
    IF ws = <<>> THEN acc
    ELSE LET w == Head(ws)
             k == IndexOfTitle(acc, w.title)
         IN  UniqueByTitle(Tail(ws), IF k = 0 THEN Append(acc, w) ELSE [acc EXCEPT ![k] = w])

save_hourly_json(ws) == JsonFile(SortByHot(UniqueByTitle(ws, <<>>)))

-----------------------------------------------------------------------------
(* save_day_json: the merge of the current run into the day's aggregate *)

(* a faulty variant of merged_hot: the stored value is overwritten *)
overwritten_hot(cur, prev) == cur

(* max(word.hot, old_word.hot) *)
merged_hot(cur, prev) == Max(cur, prev)

(* max(word.read_count or 0, old_word.get('read_count', 0)): the key is    *)
(* always in the stored dictionary, so get returns the stored value, and   *)
(* max of an int and None raises TypeError                                 *)
merged_count(cur, prev) ==
    IF prev = None THEN Raised("TypeError")
    ELSE Returned(Some(Max(IF cur = None THEN 0 ELSE cur[1], prev[1])))

(* old_word['posts'] = word_dict['posts'] *)
merged_posts(cur, prev) == cur

(* the enhanced script's update of a stored dictionary *)
merge_word_enhanced(w, old) ==
    LET rc == merged_count(w.read_count, old.read_count)
        dc == merged_count(w.discuss_count, old.discuss_count)
        og == merged_count(w.origin, old.origin)
    IN  IF ~rc.ok THEN rc
        ELSE IF ~dc.ok THEN dc
        ELSE IF ~og.ok THEN og
        ELSE Returned([old EXCEPT !.hot = merged_hot(w.hot, old.hot),
                                  !.read_count = rc.val,
                                  !.discuss_count = dc.val,
                                  !.origin = og.val,
                                  !.posts = merged_posts(w.posts, old.posts)])

(* main.py's update of a stored item: only hot is reconciled *)
merge_word_main(w, old) ==
    Returned([old EXCEPT !.hot = merged_hot(w.hot, old.hot)])

merge_word(variant_, w, old) ==
    IF variant_ = "main" THEN merge_word_main(w, old) ELSE merge_word_enhanced(w, old)

(* the loop over words that fills word_map; acc is word_map in insertion order *)
RECURSIVE merge_words(_, _, _)
merge_words(variant_, ws, acc) ==
    IF ws = <<>> THEN Returned(acc)
    ELSE LET w == Head(ws)
             k == IndexOfTitle(acc, w.title)
             m == merge_word(variant_, w, acc[k])
         IN  IF k = 0 THEN merge_words(variant_, Tail(ws), Append(acc, w))
             ELSE IF ~m.ok THEN m
             ELSE merge_words(variant_, Tail(ws), [acc EXCEPT ![k] = m.val])

(* the aggregate save_day_json computes from the words and the text of     *)
(* summary.json, or the exception raised on the way: by json.loads, which  *)
(* nothing guards, when the text is not JSON, or by the loop               *)
merge(variant_, ws, content) ==
    LET r == merge_words(variant_, ws, IF content.kind = "json" THEN content.data ELSE <<>>)
    IN  IF content.kind = "text" THEN Raised("JSONDecodeError")
        ELSE IF r.ok THEN Returned(SortByHot(r.val)) ELSE r

create_list(ws) ==
    [i \in 1..Len(ws) |->
        <<ws[i].title, ws[i].url,
          IF Truthy(ws[i].category) THEN ws[i].category[1] ELSE "", ws[i].hot>>]

create_archive(ws) == TextFile(<<Len(ws), create_list(ws)>>)

(* re.sub of "[\s\S]*" by the list: main.py replaces every match, the      *)
(* whole text and the empty match after it; the enhanced script only the   *)
(* first                                                                   *)
create_readme(variant_, ws, f) ==
    IF variant_ = "main" /\ read_file(f).kind # "empty"
    THEN TextFile(<<create_list(ws), create_list(ws)>>)
    ELSE TextFile(<<create_list(ws)>>)

-----------------------------------------------------------------------------
(* The two save functions, as bootstrap calls them:                        *)
(*     await asyncio.gather(save_hourly_json(words), save_day_json(words)) *)
(* When save_day_json raises, the hourly write is still under way.  It     *)
(* completes while the caller sleeps; if the caller returns instead        *)
(* (`last`), asyncio.run cancels it after it opened, and so emptied, the   *)
(* file, before or after it wrote.                                         *)

Hours == 1..MaxHours

SaveBoth(ws, m, last) ==
    IF m.ok
    THEN /\ hourly' = [hourly EXCEPT ![hour] = save_hourly_json(ws)]
         /\ summary' = JsonFile(m.val)
         /\ archive' = create_archive(m.val)
         /\ readme' = create_readme(variant, m.val, readme)
    ELSE /\ summary' = read_file(summary)
         /\ \/ hourly' = [hourly EXCEPT ![hour] = save_hourly_json(ws)]
            \/ last /\ hourly' = [hourly EXCEPT ![hour] = EmptyFile]
         /\ UNCHANGED <<archive, readme>>

-----------------------------------------------------------------------------
(* bootstrap *)

FreshFiles ==
    /\ hourly = [h \in Hours |-> Absent]
    /\ summary = Absent
    /\ archive = Absent
    /\ readme = Absent

(* the files an earlier run of the day left after it saved the list ws *)
SavedFiles(ws) ==
    \E m \in {merge(variant, ws, EmptyFile)} :
        /\ hourly = [h \in Hours |-> IF h = 1 THEN save_hourly_json(ws) ELSE Absent]
        /\ summary = JsonFile(m.val)
        /\ archive = create_archive(m.val)
        /\ readme = create_readme(variant, m.val, Absent)

(* the topic "A" as an earlier run stored it: with the counts of the page, *)
(* or without them after a failed detail request                           *)
Earlier(detail) ==
    WeiboItem(variant,
              [desc |-> "A", desc_extr |-> Some(Wan52), promotion |-> FALSE,
               category |-> None, description |-> None, scheme |-> Some("u")],
              detail, <<Post1>>, extract_numbers(Some(Wan52)).val)

(* neither session file is there *)
NoSession == [auth_state |-> None, weibo_cookies |-> None]

InitControl ==
    /\ pc = "idle"
    /\ retry_count = 0
    /\ fetches = 0
    /\ delays = <<>>
    /\ got_list = FALSE
    /\ status = "none"
    /\ saves = 0
    /\ hour = 1
    /\ words = <<>>
    /\ attempt = 0
    /\ cookies_for_context = <<>>
    /\ context = None
    /\ login_results = <<>>
    /\ walls = 0
    /\ failures = <<>>
    /\ initial_posts_data = <<>>
    /\ loaded = <<>>
    /\ tasks = 0
    /\ started = 0
    /\ finished = 0

(* the answers the enrichment requests get: one per topic a task is made *)
(* for (no request is made for the others), and main.py asks for no posts *)
Answers(variant_, items, details, posts) ==
    \A i \in 1..Len(items) :
        /\ (variant_ = "enhanced" /\ items[i].promotion) => details[i] = NoDetail
        /\ (variant_ = "main" \/ items[i].promotion) => posts[i] = <<>>

Sites(variant_, l) ==
    {x \in [items : {l}, details : [1..Len(l) -> DetailOutcomes],
                        posts : [1..Len(l) -> PostOutcomes]] :
          Answers(variant_, x.items, x.details, x.posts)}

NoSite == [items |-> <<>>, details |-> <<>>, posts |-> <<>>]

(* the first run of a day, or a run that follows an earlier one; the site *)
(* gives the same answers to every request of the run that it answers     *)
Init ==
    /\ variant \in {"main", "enhanced"}
    /\ InitControl
    /\ session = NoSession
    /\ \E l \in RawLists : site \in Sites(variant, l)
    /\ \/ FreshFiles
       \/ SavedFiles(<<Earlier(Detail1)>>)
       \/ SavedFiles(<<Earlier(NoDetail)>>)
    /\ pre = files
    /\ fn_in = None
    /\ fn_out = <<>>

(* a faulty variant of Handler: the comparison is off by one, the run     *)
(* gives up one failure early                                             *)
HandlerOneShort ==
    /\ retry_count' = retry_count + 1
    /\ IF retry_count + 1 >= MAX_RETRIES - 1
       THEN pc' = "done" /\ delays' = delays
       ELSE pc' = "loop" /\ delays' = Append(delays, 5)

(* the except branch of the loop: count the failure, give up after        *)
(* MAX_RETRIES of them, sleep 5 seconds otherwise                         *)
Handler ==
    /\ retry_count' = retry_count + 1
    /\ IF retry_count + 1 >= MAX_RETRIES
       THEN pc' = "done" /\ delays' = delays
       ELSE pc' = "loop" /\ delays' = Append(delays, 5)

(* asyncio.run(bootstrap()) *)
Start ==
    /\ pc = "idle"
    /\ pc' = "loop"
    /\ UNCHANGED <<variant, retry_count, fetches, delays, got_list, status, saves, hour,
                   hourly, summary, archive, readme, pre, words, site, fn_in, fn_out>>
    /\ UNCHANGED collector

(* a faulty variant of FetchFailed: the failed fetch is taken for an      *)
(* empty list and the hour's snapshot is written with it                  *)
FetchFailedSaves ==
    /\ pc = "loop"
    /\ retry_count < MAX_RETRIES
    /\ fetches' = fetches + 1
    /\ status' = "fetch_failed"
    /\ Handler
    /\ hourly' = [hourly EXCEPT ![hour] = save_hourly_json(<<>>)]
    /\ UNCHANGED <<variant, got_list, saves, hour, summary, archive, readme,
                   pre, words, site, fn_in, fn_out>>
    /\ UNCHANGED collector

(* an iteration whose fetch gives nothing usable: the page did not load   *)
(* or held no JSON (None), ok is not 1, or there is no card (IndexError)  *)
FetchFailed ==
    /\ pc = "loop"
    /\ retry_count < MAX_RETRIES
    /\ fetches' = fetches + 1
    /\ status' = "fetch_failed"
    /\ Handler
    /\ UNCHANGED <<variant, got_list, saves, hour, hourly, summary, archive, readme,
                   pre, words, site, fn_in, fn_out>>
    /\ UNCHANGED collector

(* an iteration whose fetch gives an empty card group: break, nothing saved *)
FetchNoItems ==
    /\ pc = "loop"
    /\ retry_count < MAX_RETRIES
    /\ site.items = <<>>
    /\ fetches' = fetches + 1
    /\ got_list' = TRUE
    /\ status' = "no_items"
    /\ pc' = "done"
    /\ UNCHANGED <<variant, retry_count, delays, saves, hour, hourly, summary,
                   archive, readme, pre, words, site, fn_in, fn_out>>
    /\ UNCHANGED collector

(* a faulty variant of FetchItems: an exception of the tasks or of the   *)
(* saves ends the run, only a failed fetch is retried                     *)
FetchItemsOnce ==
    /\ pc = "loop"
    /\ retry_count < MAX_RETRIES
    /\ site.items # <<>>
    /\ fetches' = fetches + 1
    /\ got_list' = TRUE
    /\ \E g \in {gather_items(variant, site.items, site.details, site.posts)} :
          IF ~g.ok
          THEN /\ status' = "process_raised"
               /\ pc' = "done"
               /\ UNCHANGED <<retry_count, delays>>
               /\ UNCHANGED <<hourly, summary, archive, readme, words>>
          ELSE /\ words' = g.val
               /\ \E m \in {merge(variant, g.val, read_file(summary))} :
                     /\ SaveBoth(g.val, m, retry_count + 1 >= MAX_RETRIES)
                     /\ IF m.ok
                        THEN /\ status' = "saved"
                             /\ pc' = "done"
                             /\ UNCHANGED <<retry_count, delays>>
                        ELSE /\ status' = "save_raised"
                             /\ pc' = "done"
                             /\ UNCHANGED <<retry_count, delays>>
    /\ UNCHANGED <<variant, saves, hour, pre, site, fn_in, fn_out>>
    /\ UNCHANGED collector

(* an iteration whose fetch gives the topics of the site: the tasks, the  *)
(* gather over them, the two saves                                        *)
FetchItems ==
    /\ pc = "loop"
    /\ retry_count < MAX_RETRIES
    /\ site.items # <<>>
    /\ fetches' = fetches + 1
    /\ got_list' = TRUE
    /\ \E g \in {gather_items(variant, site.items, site.details, site.posts)} :
          IF ~g.ok
          THEN /\ status' = "process_raised"
               /\ Handler
               /\ UNCHANGED <<hourly, summary, archive, readme, words>>
          ELSE /\ words' = g.val
               /\ \E m \in {merge(variant, g.val, read_file(summary))} :
                     /\ SaveBoth(g.val, m, retry_count + 1 >= MAX_RETRIES)
                     /\ IF m.ok
                        THEN /\ status' = "saved"
                             /\ pc' = "done"
                             /\ UNCHANGED <<retry_count, delays>>
                        ELSE /\ status' = "save_raised"
                             /\ Handler
    /\ UNCHANGED <<variant, saves, hour, pre, site, fn_in, fn_out>>
    /\ UNCHANGED collector

Next == Start \/ FetchFailed \/ FetchNoItems \/ FetchItems

Spec == Init /\ [][Next]_vars

-----------------------------------------------------------------------------
(* The save functions under direct call, on a day that starts empty *)

(* the items process_item can hand to the save functions: the topics that *)
(* are not promoted and whose heat text extract_numbers accepts, with     *)
(* every answer of the enrichment requests                                *)
WordsOf(variant_) ==
    {process_item(variant_, x[1], x[2], x[3]).val :
        x \in {y \in RawItems \X DetailOutcomes \X PostOutcomes :
                 /\ extract_numbers(y[1].desc_extr).ok
                 /\ ~y[1].promotion
                 /\ variant_ = "main" => y[3] = <<>>}}

WordLists == [v \in {"main", "enhanced"} |-> SeqsUpTo(WordsOf(v), MaxItems)]

InitMerge ==
    /\ variant \in {"main", "enhanced"}
    /\ InitControl
    /\ session = NoSession
    /\ FreshFiles
    /\ pre = files
    /\ site = NoSite
    /\ fn_in = None
    /\ fn_out = <<>>

SaveCall(ws) ==
    /\ saves' = saves + 1
    /\ pre' = files
    /\ words' = ws
    /\ \E m \in {merge(variant, ws, read_file(summary))} :
          /\ SaveBoth(ws, m, TRUE)
          /\ status' = IF m.ok THEN "saved" ELSE "save_raised"
    /\ UNCHANGED <<variant, pc, retry_count, fetches, delays, got_list, hour, site, fn_in, fn_out>>
    /\ UNCHANGED collector

NextMerge ==
    /\ saves < MaxSaves
    /\ \E ws \in WordLists[variant] : SaveCall(ws)

SpecMerge == InitMerge /\ [][NextMerge]_vars

(* the same calls on a day whose summary.json holds a text that is not   *)
(* JSON, as a write that was cut short leaves it                          *)
InitCorrupt ==
    /\ variant \in {"main", "enhanced"}
    /\ InitControl
    /\ session = NoSession
    /\ hourly = [h \in Hours |-> Absent]
    /\ summary = TextFile(<<"[", "{">>)
    /\ archive = Absent
    /\ readme = Absent
    /\ pre = files
    /\ site = NoSite
    /\ fn_in = None
    /\ fn_out = <<>>

SpecCorrupt == InitCorrupt /\ [][NextMerge]_vars

-----------------------------------------------------------------------------
(* The day's heat (3_daily_heat_30d.py) over the files the save functions *)
(* of main.py leave, on a day whose runs fall in one hour or in several   *)

(* read_json gives the list a file holds, and None when reading or       *)
(* parsing raised.  sum(int(item.get("hot", 0) or 0) for item in data),    *)
(* 0 for no data                                                           *)
sum_hot_from_summary(summary_path) ==
    LET read_json(f) == IF f.kind = "json" THEN Some(f.data) ELSE None
        data == read_json(summary_path)
        RECURSIVE total(_)
        total(list) == IF list = <<>> THEN 0 ELSE Head(list).hot + total(Tail(list))
    IN  IF data = None \/ data[1] = <<>> THEN 0 ELSE total(data[1])

(* the loop over the hour files of the directory, which keeps in         *)
(* title_max the largest hot of each title, and the sum of its values     *)
sum_hot_from_hours(day_dir) ==
    LET read_json(f) == IF f.kind = "json" THEN Some(f.data) ELSE None
        RECURSIVE items(_)
        items(h) ==
            IF h > Len(day_dir) THEN <<>>
            ELSE (IF read_json(day_dir[h]) = None THEN <<>> ELSE read_json(day_dir[h])[1])
                 \o items(h + 1)
        all == items(1)
        title_max == [t \in {all[i].title : i \in 1..Len(all)} |->
                         CHOOSE m \in {all[i].hot : i \in {k \in 1..Len(all) : all[k].title = t}} :
                             \A i \in 1..Len(all) : all[i].title = t => all[i].hot <= m]
        RECURSIVE total(_)
        total(titles) ==
            IF titles = {} THEN 0
            ELSE LET t == CHOOSE x \in titles : TRUE
                 IN  title_max[t] + total(titles \ {t})
    IN  total(DOMAIN title_max)

(* the wall clock passes into the next hour, between two runs: the next *)
(* save_hourly_json reads it and writes that hour's file                  *)
NextHour ==
    /\ pc = "idle"
    /\ hour < MaxHours
    /\ hour' = hour + 1
    /\ UNCHANGED <<variant, pc, retry_count, fetches, delays, got_list, status, saves,
                   hourly, summary, archive, readme, pre, words, site, fn_in, fn_out>>
    /\ UNCHANGED collector

(* a day of main.py, whose merge reconciles hot alone *)
InitDay ==
    /\ InitMerge
    /\ variant = "main"

SpecDay == InitDay /\ [][NextMerge \/ NextHour]_vars

-----------------------------------------------------------------------------
(* GET /api/latest (1_weibo_trending_api.py).  The data directory is a    *)
(* record of today's and yesterday's directory, each None when it does    *)
(* not exist and else the list of its *.json files in the order glob      *)
(* gives them; a file has the stem of its name, its modification time in  *)
(* whole seconds and what it holds                                        *)

(* a faulty variant of find_latest_json_file: a file that is empty or is *)
(* not JSON is passed over                                                *)
find_latest_valid_json_file(api) ==
    LET RECURSIVE scan(_, _)
        scan(entries, latest_file) ==
            IF entries = <<>> THEN latest_file
            ELSE LET file_path == Head(entries)
                     latest_timestamp == IF latest_file = None THEN 0 ELSE latest_file[1].mtime
                 IN  scan(Tail(entries),
                          IF /\ file_path.stem # <<>>
                             /\ \A i \in 1..Len(file_path.stem) : file_path.stem[i] \in DecimalChars
                             /\ file_path.file.kind = "json"
                             /\ file_path.mtime > latest_timestamp
                          THEN Some(file_path) ELSE latest_file)
        listed(directory) == IF directory = None THEN <<>> ELSE directory[1]
    IN  scan(listed(api.today) \o listed(api.yesterday), None)

(* the loop over today's and then yesterday's files: of those whose stem *)
(* is all digits, the first met with the largest modification time, None  *)
(* when there is none                                                     *)
find_latest_json_file(api) ==
    LET RECURSIVE scan(_, _)
        scan(entries, latest_file) ==
            IF entries = <<>> THEN latest_file
            ELSE LET file_path == Head(entries)
                     latest_timestamp == IF latest_file = None THEN 0 ELSE latest_file[1].mtime
                 IN  scan(Tail(entries),
                          IF /\ file_path.stem # <<>>
                             /\ \A i \in 1..Len(file_path.stem) : file_path.stem[i] \in DecimalChars
                             /\ file_path.mtime > latest_timestamp
                          THEN Some(file_path) ELSE latest_file)
        listed(directory) == IF directory = None THEN <<>> ELSE directory[1]
    IN  scan(listed(api.today) \o listed(api.yesterday), None)

(* the response: the file found is served when it is not empty and       *)
(* json.load takes it, 500 when json.load raises, 404 when no file was    *)
(* found or the file found is empty                                       *)
get_latest_hot_list(api) ==
    LET latest_file == find_latest_json_file(api)
    IN  IF latest_file # None /\ latest_file[1].file.kind # "empty"
        THEN IF latest_file[1].file.kind = "json"
             THEN [code |-> 200, success |-> TRUE, update_time |-> Some(latest_file[1].mtime),
                   data |-> Some(latest_file[1].file.data)]
             ELSE [code |-> 500, success |-> FALSE, update_time |-> None, data |-> None]
        ELSE [code |-> 404, success |-> FALSE, update_time |-> None, data |-> None]

(* a data directory with up to two files of today and one of yesterday   *)
InitLatest ==
    /\ variant = "api"
    /\ InitControl
    /\ session = NoSession
    /\ FreshFiles
    /\ pre = files
    /\ site = NoSite
    /\ LET Held == {EmptyFile, TextFile(<<"[", "{">>),
                    JsonFile(<<[title |-> "A", hot |-> 52]>>), JsonFile(<<[title |-> "B", hot |-> 1]>>)}
           Entries(stems) == [stem : stems, mtime : 1..MaxStamp, file : Held]
           Today == Entries({<<"0", "1">>, <<"0", "2">>, <<"summary">>})
       IN  fn_in \in [today : {None, Some(<<>>)} \cup {Some(<<e>>) : e \in Today}
                                \cup {Some(<<p[1], p[2]>>) :
                                         p \in {q \in Today \X Today : q[1].stem # q[2].stem}},
                      yesterday : {None} \cup {Some(<<e>>) : e \in Entries({<<"2", "3">>})}]
    /\ fn_out = <<>>

(* a request *)
Request ==
    /\ fn_out = <<>>
    /\ fn_out' = <<get_latest_hot_list(fn_in)>>
    /\ UNCHANGED <<variant, pc, scraper, site, fn_in>>
    /\ UNCHANGED collector

SpecLatest == InitLatest /\ [][Request]_vars

-----------------------------------------------------------------------------
(* GET /api/latest while main.py rewrites the hour's file *)

(* the directory the scraper writes is the one the API reads: the files  *)
(* of the day that exist, the hour files under the two digits of their    *)
(* hour and as old as their hour, summary.json the newest                 *)
API_DATA_PATH(hourly_, summary_) ==
    LET hours == SelectSeq([h \in 1..Len(hourly_) |-> h], LAMBDA h : hourly_[h].kind # "absent")
        hour_files == [k \in 1..Len(hours) |->
                          [stem |-> <<"0", <<"1", "2", "3", "4", "5", "6", "7", "8", "9">>[hours[k]]>>,
                           mtime |-> hours[k], file |-> hourly_[hours[k]]]]
        day_file == IF summary_.kind = "absent" THEN <<>>
                    ELSE <<[stem |-> <<"summary">>, mtime |-> Len(hourly_) + 1, file |-> summary_]>>
    IN  [today |-> IF hour_files \o day_file = <<>> THEN None ELSE Some(hour_files \o day_file),
         yesterday |-> None]

(* a faulty variant of write_file: the text is written to a file aside,  *)
(* which takes the place of the hour's file when it is closed             *)
write_file_aside ==
    /\ \/ /\ pc = "idle"
          /\ saves < MaxSaves
          /\ \E ws \in {<<>>, <<Earlier(Detail1)>>, <<Earlier(Detail2)>>} : words' = ws
          /\ pre' = files
          /\ pc' = "open"
          /\ UNCHANGED <<hourly, summary, archive, readme, saves, status>>
       \/ /\ pc = "open"
          /\ pc' = "partial"
          /\ UNCHANGED <<hourly, summary, archive, readme, saves, status, pre, words>>
       \/ /\ pc \in {"open", "partial"}
          /\ \E m \in {merge(variant, words, read_file(summary))} :
                 SaveBoth(words, m, FALSE) /\ status' = IF m.ok THEN "saved" ELSE "save_raised"
          /\ saves' = saves + 1
          /\ pc' = "idle"
          /\ UNCHANGED <<pre, words>>
    /\ UNCHANGED <<variant, retry_count, fetches, delays, got_list, hour, site, fn_in, fn_out>>
    /\ UNCHANGED collector

(* save_hourly_json's write_file, step by step: open(path, 'w') empties  *)
(* the hour's file; the text reaches the file whole, or a part of it      *)
(* first; with the close the run has written its files                    *)
write_file ==
    /\ \/ /\ pc = "idle"
          /\ saves < MaxSaves
          /\ \E ws \in {<<>>, <<Earlier(Detail1)>>, <<Earlier(Detail2)>>} : words' = ws
          /\ pre' = files
          /\ hourly' = [hourly EXCEPT ![hour] = EmptyFile]
          /\ pc' = "open"
          /\ UNCHANGED <<summary, archive, readme, saves, status>>
       \/ /\ pc = "open"
          /\ hourly' = [hourly EXCEPT ![hour] = TextFile(<<"[", "{">>)]
          /\ pc' = "partial"
          /\ UNCHANGED <<summary, archive, readme, saves, status, pre, words>>
       \/ /\ pc \in {"open", "partial"}
          /\ \E m \in {merge(variant, words, read_file(summary))} :
                 SaveBoth(words, m, FALSE) /\ status' = IF m.ok THEN "saved" ELSE "save_raised"
          /\ saves' = saves + 1
          /\ pc' = "idle"
          /\ UNCHANGED <<pre, words>>
    /\ UNCHANGED <<variant, retry_count, fetches, delays, got_list, hour, site, fn_in, fn_out>>
    /\ UNCHANGED collector

(* a request, answered from the files as they are; fn_in keeps what it   *)
(* met: the directory, whether a write was under way, and the hour files  *)
(* as they were before that write                                         *)
Serve ==
    /\ \E api \in {API_DATA_PATH(hourly, summary)} :
          /\ fn_in' = Some([api |-> api, writing |-> pc # "idle", before |-> pre[1]])
          /\ fn_out' = <<get_latest_hot_list(api)>>
    /\ UNCHANGED <<variant, pc, scraper, site>>
    /\ UNCHANGED collector

SpecServe == InitMerge /\ [][write_file \/ Serve \/ NextHour]_vars

-----------------------------------------------------------------------------
(* extract_numbers under direct call *)

Alphabet == {"5", "2", ".", "wan", "a", "sup2"}

Texts == {None} \cup {Some(t) : t \in SeqsUpTo(Alphabet, MaxText)}

InitExtract ==
    /\ variant = "main"
    /\ InitControl
    /\ session = NoSession
    /\ FreshFiles
    /\ pre = files
    /\ site = NoSite
    /\ fn_in \in Texts
    /\ fn_out = <<>>

CallExtract ==
    /\ fn_out = <<>>
    /\ fn_out' = <<extract_numbers(fn_in)>>
    /\ UNCHANGED <<variant, pc, retry_count, fetches, delays, got_list, status, saves, hour,
                   hourly, summary, archive, readme, pre, words, site, fn_in>>
    /\ UNCHANGED collector

NextExtract == CallExtract

SpecExtract == InitExtract /\ [][NextExtract]_vars

-----------------------------------------------------------------------------
(* convert_to_number (main.py, the enhanced script) and _convert_to_number *)
(* (topic_detail.py) under direct call; `variant` names the one called.    *)
(* The integer a call returns is kept as its decimal digits, most          *)
(* significant first, so that values over 2^31 stay exact.                 *)

ConvertAlphabet == {"2", "3", ".", ",", "wan", "yi", "a", "zan"}

ConvertTexts == {None} \cup {Some(t) : t \in SeqsUpTo(ConvertAlphabet, MaxText)}

Zero == <<"0">>

(* str.replace(c, '') and c in str, for a one-character c *)
Without(t, c) == SelectSeq(t, LAMBDA x : x # c)

Has(t, c) == \E i \in 1..Len(t) : t[i] = c

(* float(text) for the characters of the alphabet: digits with at most   *)
(* one point and at least one digit, kept as the digits on both sides of  *)
(* the point; anything else is a ValueError                               *)
ParseFloat(t) ==
    LET points == {i \in 1..Len(t) : t[i] = "."}
    IN  IF \/ \E i \in 1..Len(t) : t[i] \notin DecimalChars \cup {"."}
           \/ Cardinality(points) > 1
           \/ Cardinality(points) = Len(t)
        THEN Raised("ValueError")
        ELSE IF points = {}
             THEN Returned([int |-> t, frac |-> <<>>])
             ELSE LET p == CHOOSE i \in points : TRUE
                  IN  Returned([int |-> SubSeq(t, 1, p - 1), frac |-> SubSeq(t, p + 1, Len(t))])

(* a digit string without its leading zeros *)
RECURSIVE Normalized(_)
Normalized(ds) ==
    IF ds = <<>> THEN Zero
    ELSE IF Head(ds) = "0" /\ Len(ds) > 1 THEN Normalized(Tail(ds))
    ELSE ds

(* the integer part of the decimal number f times 10^k *)
Shifted(f, k) ==
    Normalized(f.int \o [i \in 1..k |-> IF i <= Len(f.frac) THEN f.frac[i] ELSE "0"])

(* the products float(text) * 100000000 that the double arithmetic puts  *)
(* just below the decimal value, with the integer int() then gives; no    *)
(* other number of up to four of the alphabet's characters, times 10000   *)
(* or 100000000, differs from the decimal product                         *)
RoundedDown ==
    { [int |-> <<"2">>, frac |-> <<"3">>, k |-> 8,
       val |-> <<"2", "2", "9", "9", "9", "9", "9", "9", "9">>],
      [int |-> <<"2">>, frac |-> <<"3", "2">>, k |-> 8,
       val |-> <<"2", "3", "1", "9", "9", "9", "9", "9", "9">>],
      [int |-> <<"3", "2">>, frac |-> <<"3">>, k |-> 8,
       val |-> <<"3", "2", "2", "9", "9", "9", "9", "9", "9", "9">>],
      [int |-> <<"3", "3">>, frac |-> <<"3">>, k |-> 8,
       val |-> <<"3", "3", "2", "9", "9", "9", "9", "9", "9", "9">>] }

(* int(float(text) * 10^k) *)
ScaledInt(parsed, k) ==
    IF ~parsed.ok THEN parsed
    ELSE LET low == {e \in RoundedDown :
                        e.int = parsed.val.int /\ e.frac = parsed.val.frac /\ e.k = k}
         IN  IF low # {} THEN Returned((CHOOSE e \in low : TRUE).val)
             ELSE Returned(Shifted(parsed.val, k))

convert_to_number_main(s) ==
    IF s = None THEN Raised("AttributeError")
    ELSE IF Has(s[1], "wan") THEN ScaledInt(ParseFloat(Without(s[1], "wan")), 4)
    ELSE IF Has(s[1], "yi") THEN ScaledInt(ParseFloat(Without(s[1], "yi")), 8)
    ELSE ScaledInt(ParseFloat(s[1]), 0)

convert_to_number_enhanced(s) ==
    IF s = None \/ s[1] = <<>> THEN Returned(Zero)
    ELSE LET t == Without(s[1], "zan")
         IN  IF t = <<>> THEN Returned(Zero)
             ELSE IF Has(t, "wan") THEN ScaledInt(ParseFloat(Without(t, "wan")), 4)
             ELSE IF Has(t, "yi") THEN ScaledInt(ParseFloat(Without(t, "yi")), 8)
             ELSE ScaledInt(ParseFloat(Without(t, ",")), 0)

_convert_to_number(s) ==
    IF s = None \/ s[1] = <<>> THEN Returned(Zero)
    ELSE LET t == SelectSeq(s[1], LAMBDA x : x \in DecimalChars \cup {".", "wan", "yi", ","})
             r == IF Has(t, "yi") THEN ScaledInt(ParseFloat(Without(t, "yi")), 8)
                  ELSE IF Has(t, "wan") THEN ScaledInt(ParseFloat(Without(t, "wan")), 4)
                  ELSE ScaledInt(ParseFloat(Without(t, ",")), 0)
         IN  IF t = <<>> THEN Returned(Zero)
             ELSE IF r.ok THEN r ELSE Returned(Zero)

convert_to_number(variant_, s) ==
    CASE variant_ = "main" -> convert_to_number_main(s)
      [] variant_ = "enhanced" -> convert_to_number_enhanced(s)
      [] variant_ = "topic_detail" -> _convert_to_number(s)

InitConvert ==
    /\ variant \in {"main", "enhanced", "topic_detail"}
    /\ InitControl
    /\ session = NoSession
    /\ FreshFiles
    /\ pre = files
    /\ site = NoSite
    /\ fn_in \in ConvertTexts
    /\ fn_out = <<>>

CallConvert ==
    /\ fn_out = <<>>
    /\ fn_out' = <<convert_to_number(variant, fn_in)>>
    /\ UNCHANGED <<variant, pc, retry_count, fetches, delays, got_list, status, saves, hour,
                   hourly, summary, archive, readme, pre, words, site, fn_in>>
    /\ UNCHANGED collector

NextConvert == CallConvert

SpecConvert == InitConvert /\ [][NextConvert]_vars

-----------------------------------------------------------------------------
(* normalize_time (topic_detail.py).  A text is a sequence of characters;  *)
(* the Chinese characters the patterns name are written in pinyin: gang    *)
(* gang (just now), fen zhong qian (minutes ago), xiao shi qian (hours     *)
(* ago), jin tian (today), zuo tian (yesterday), yue (month), ri (day),    *)
(* fa bu yu (published at), nian (year).                                   *)

(* datetime.now() at the call *)
Now == [y |-> 2026, mo |-> 3, d |-> 1, h |-> 0, mi |-> 30]

IsLeap(y) == (y % 4 = 0 /\ y % 100 # 0) \/ y % 400 = 0

DaysInMonth(y, mo) ==
    IF mo = 2 THEN (IF IsLeap(y) THEN 29 ELSE 28)
    ELSE IF mo \in {4, 6, 9, 11} THEN 30 ELSE 31

(* the day before a date *)
DayBefore(dt) ==
    IF dt.d > 1 THEN [dt EXCEPT !.d = dt.d - 1]
    ELSE IF dt.mo > 1 THEN [dt EXCEPT !.mo = dt.mo - 1, !.d = DaysInMonth(dt.y, dt.mo - 1)]
    ELSE [dt EXCEPT !.y = dt.y - 1, !.mo = 12, !.d = 31]

RECURSIVE DaysBefore(_, _)
DaysBefore(dt, n) == IF n = 0 THEN dt ELSE DaysBefore(DayBefore(dt), n - 1)

(* dt - timedelta(minutes = n) *)
MinutesBefore(dt, n) ==
    LET ofday == dt.h * 60 + dt.mi
        days == IF n <= ofday THEN 0 ELSE (n - ofday + 1439) \div 1440
        left == ofday + days * 1440 - n
    IN  [DaysBefore(dt, days) EXCEPT !.h = left \div 60, !.mi = left % 60]

DigitChar(n) ==
    CASE n = 0 -> "0" [] n = 1 -> "1" [] n = 2 -> "2" [] n = 3 -> "3" [] n = 4 -> "4"
      [] n = 5 -> "5" [] n = 6 -> "6" [] n = 7 -> "7" [] n = 8 -> "8" [] n = 9 -> "9"

(* the decimal digits of a natural number, at least `width` of them *)
RECURSIVE Digits(_, _)
Digits(n, width) ==
    IF n < 10 /\ width <= 1 THEN <<DigitChar(n)>>
    ELSE Append(Digits(n \div 10, width - 1), DigitChar(n % 10))

(* dt.strftime("%Y-%m-%d") and the "HH:MM" of the two-digit format *)
DateText(dt) == Digits(dt.y, 4) \o <<"-">> \o Digits(dt.mo, 2) \o <<"-">> \o Digits(dt.d, 2)

ClockText(h, mi) == Digits(h, 2) \o <<":">> \o Digits(mi, 2)

Strftime(dt) == DateText(dt) \o <<" ">> \o ClockText(dt.h, dt.mi)

(* str.strip() over the one whitespace character of the texts *)
RECURSIVE LStrip(_)
LStrip(t) == IF t # <<>> /\ Head(t) = " " THEN LStrip(Tail(t)) ELSE t

RECURSIVE RStrip(_)
RStrip(t) == IF t # <<>> /\ t[Len(t)] = " " THEN RStrip(SubSeq(t, 1, Len(t) - 1)) ELSE t

Strip(t) == RStrip(LStrip(t))

(* w occurs in t at position i *)
At(t, i, w) == i >= 1 /\ i + Len(w) - 1 <= Len(t) /\ SubSeq(t, i, i + Len(w) - 1) = w

(* str.replace(w, '') *)
RECURSIVE Removed(_, _)
Removed(t, w) ==
    IF t = <<>> THEN <<>>
    ELSE IF At(t, 1, w) THEN Removed(SubSeq(t, Len(w) + 1, Len(t)), w)
    ELSE <<Head(t)>> \o Removed(Tail(t), w)

(* the pieces of the regular expressions: the lengths n in lo..hi of a   *)
(* run of digits at i, and the positions a run of whitespace at i can     *)
(* end before                                                             *)
DigitRuns(t, i, lo, hi) ==
    {n \in lo..hi : i + n - 1 <= Len(t) /\ \A j \in i..(i + n - 1) : t[j] \in DecimalChars}

AfterSpaces(t, i) == {j \in i..(Len(t) + 1) : \A k \in i..(j - 1) : t[k] = " "}

(* (\d{1,2}:\d{1,2}) at c: the ways it matches, each with its two        *)
(* numbers, the lengths of their digit runs and the position after it     *)
ClocksAt(t, c) ==
    LET ks == {n \in DigitRuns(t, c, 1, 2) : c + n <= Len(t) /\ t[c + n] = ":"}
        kl == {x \in ks \X (1..2) : x[2] \in DigitRuns(t, c + x[1] + 1, 1, 2)}
    IN  {[h |-> IntOfDigits(SubSeq(t, c, c + x[1] - 1)),
          mi |-> IntOfDigits(SubSeq(t, c + x[1] + 1, c + x[1] + x[2])),
          k |-> x[1], l |-> x[2], end |-> c + x[1] + x[2] + 1] : x \in kl}

(* ^\s*(\d+)\s*word : the number, when the text starts that way *)
AgoMatch(t, word) ==
    LET hits == {x \in AfterSpaces(t, 1) \X (1..Len(t)) :
                    /\ x[2] \in DigitRuns(t, x[1], 1, Len(t))
                    /\ \E c \in AfterSpaces(t, x[1] + x[2]) : At(t, c, word)}
    IN  {IntOfDigits(SubSeq(t, x[1], x[1] + x[2] - 1)) : x \in hits}

(* ^(?:word)\s*(\d{1,2}:\d{1,2})$ : the clock, when the whole text is    *)
(* the word and a clock                                                   *)
DayClockMatch(t, word) ==
    IF ~At(t, 1, word) THEN {}
    ELSE {x \in UNION {ClocksAt(t, c) : c \in AfterSpaces(t, Len(word) + 1)} :
             x.end = Len(t) + 1}

(* ^\s*(\d{1,2})yue(\d{1,2})ri(?:\s*(\d{1,2}:\d{1,2}))?\s*$ : month, day  *)
(* and the clock or None                                                  *)
MonthDayMatch(t) ==
    LET heads == {x \in AfterSpaces(t, 1) \X (1..2) \X (1..2) :
                     /\ x[2] \in DigitRuns(t, x[1], 1, 2)
                     /\ At(t, x[1] + x[2], <<"yue">>)
                     /\ x[3] \in DigitRuns(t, x[1] + x[2] + 1, 1, 2)
                     /\ At(t, x[1] + x[2] + 1 + x[3], <<"ri">>)}
        Rest(x) == x[1] + x[2] + x[3] + 2
        Month(x) == IntOfDigits(SubSeq(t, x[1], x[1] + x[2] - 1))
        Day(x) == IntOfDigits(SubSeq(t, x[1] + x[2] + 1, x[1] + x[2] + x[3]))
    IN  {[mo |-> Month(x), d |-> Day(x), clock |-> Some(c)] :
            x \in heads,
            c \in {c \in UNION {ClocksAt(t, p) : p \in UNION {AfterSpaces(t, Rest(y)) : y \in heads}} :
                      Len(t) + 1 \in AfterSpaces(t, c.end)}}
        \cup
        {[mo |-> Month(x), d |-> Day(x), clock |-> None] :
            x \in {y \in heads : Len(t) + 1 \in AfterSpaces(t, Rest(y))}}

(* ^\s*(\d{4})[-/](\d{1,2})[-/](\d{1,2})(?:\s+(\d{1,2}:\d{1,2}))?\s*$ :   *)
(* year, month, day and the clock or None                                 *)
YearMatch(t) ==
    LET Sep(i) == At(t, i, <<"-">>) \/ At(t, i, <<"/">>)
        heads == {x \in AfterSpaces(t, 1) \X (1..2) \X (1..2) :
                     /\ 4 \in DigitRuns(t, x[1], 4, 4)
                     /\ Sep(x[1] + 4)
                     /\ x[2] \in DigitRuns(t, x[1] + 5, 1, 2)
                     /\ Sep(x[1] + 5 + x[2])
                     /\ x[3] \in DigitRuns(t, x[1] + 6 + x[2], 1, 2)}
        Rest(x) == x[1] + 6 + x[2] + x[3]
        Date(x, clock) ==
            [y |-> IntOfDigits(SubSeq(t, x[1], x[1] + 3)),
             mo |-> IntOfDigits(SubSeq(t, x[1] + 5, x[1] + 4 + x[2])),
             d |-> IntOfDigits(SubSeq(t, x[1] + 6 + x[2], x[1] + 5 + x[2] + x[3])),
             clock |-> clock]
    IN  UNION {{Date(x, Some(c)) :
                   c \in {c \in UNION {ClocksAt(t, p) : p \in AfterSpaces(t, Rest(x)) \ {Rest(x)}} :
                             Len(t) + 1 \in AfterSpaces(t, c.end)}} : x \in heads}
        \cup
        {Date(x, None) : x \in {y \in heads : Len(t) + 1 \in AfterSpaces(t, Rest(y))}}

(* re.search of (\d{1,2})yue(\d{1,2})ri.*?(\d{1,2}:\d{1,2}) : the match   *)
(* the engine finds, leftmost start, nearest clock, longest digit runs    *)
SearchMatch(t) ==
    LET heads == {x \in (1..Len(t)) \X (1..2) \X (1..2) :
                     /\ x[2] \in DigitRuns(t, x[1], 1, 2)
                     /\ At(t, x[1] + x[2], <<"yue">>)
                     /\ x[3] \in DigitRuns(t, x[1] + x[2] + 1, 1, 2)
                     /\ At(t, x[1] + x[2] + 1 + x[3], <<"ri">>)}
        Rest(x) == x[1] + x[2] + x[3] + 2
        full == {x \in heads : \E c \in Rest(x)..Len(t) : ClocksAt(t, c) # {}}
    IN  IF full = {} THEN {}
        ELSE LET x == CHOOSE x \in full : \A y \in full : x[1] <= y[1]
                 c == CHOOSE c \in Rest(x)..Len(t) :
                          /\ ClocksAt(t, c) # {}
                          /\ \A e \in Rest(x)..(c - 1) : ClocksAt(t, e) = {}
                 clock == CHOOSE a \in ClocksAt(t, c) :
                              \A b \in ClocksAt(t, c) : a.k > b.k \/ (a.k = b.k /\ a.l >= b.l)
             IN  {[mo |-> IntOfDigits(SubSeq(t, x[1], x[1] + x[2] - 1)),
                   d |-> IntOfDigits(SubSeq(t, x[1] + x[2] + 1, x[1] + x[2] + x[3])),
                   clock |-> Some(clock)]}

(* _pad_time_part of a captured clock, "00:00" for a clock that is absent *)
_pad_time_part(clock) == IF clock = None THEN ClockText(0, 0) ELSE ClockText(clock[1].h, clock[1].mi)

(* datetime.strptime of the date and the padded clock, then strftime; the *)
(* raw text when strptime raises                                          *)
ParsedOrRaw(raw, y, mo, d, clock) ==
    LET h == IF clock = None THEN 0 ELSE clock[1].h
        mi == IF clock = None THEN 0 ELSE clock[1].mi
    IN  IF /\ y >= 1000 /\ mo \in 1..12 /\ d \in 1..DaysInMonth(y, mo)
           /\ h \in 0..23 /\ mi \in 0..59
        THEN Strftime([y |-> y, mo |-> mo, d |-> d, h |-> h, mi |-> mi])
        ELSE raw

GangGang == <<"gang", "gang">>

FaBuYu == <<"fa", "bu", "yu">>

(* raw.strip(), .replace of fa bu yu, .strip() *)
Cleaned(text) == Strip(Removed(Strip(text), FaBuYu))

(* some pattern of normalize_time takes the cleaned text *)
Recognized(raw) ==
    \/ raw = GangGang
    \/ AgoMatch(raw, <<"fen", "zhong", "qian">>) # {}
    \/ AgoMatch(raw, <<"xiao", "shi", "qian">>) # {}
    \/ DayClockMatch(raw, <<"jin", "tian">>) # {}
    \/ DayClockMatch(raw, <<"zuo", "tian">>) # {}
    \/ MonthDayMatch(raw) # {}
    \/ YearMatch(raw) # {}
    \/ SearchMatch(raw) # {}

(* the chain of patterns over the cleaned text, first match first *)
Converted(raw) ==
    LET mins == AgoMatch(raw, <<"fen", "zhong", "qian">>)
        hrs == AgoMatch(raw, <<"xiao", "shi", "qian">>)
        today == DayClockMatch(raw, <<"jin", "tian">>)
        yday == DayClockMatch(raw, <<"zuo", "tian">>)
        md == MonthDayMatch(raw)
        ymd == YearMatch(raw)
        found == SearchMatch(raw)
    IN  IF raw = GangGang THEN Strftime(Now)
        ELSE IF mins # {} THEN Strftime(MinutesBefore(Now, CHOOSE n \in mins : TRUE))
        ELSE IF hrs # {} THEN Strftime(MinutesBefore(Now, 60 * (CHOOSE n \in hrs : TRUE)))
        ELSE IF today # {}
             THEN DateText(Now) \o <<" ">> \o _pad_time_part(Some(CHOOSE c \in today : TRUE))
        ELSE IF yday # {}
             THEN DateText(DayBefore(Now)) \o <<" ">> \o _pad_time_part(Some(CHOOSE c \in yday : TRUE))
        ELSE IF md # {}
             THEN LET m == CHOOSE m \in md : TRUE IN ParsedOrRaw(raw, Now.y, m.mo, m.d, m.clock)
        ELSE IF ymd # {}
             THEN LET m == CHOOSE m \in ymd : TRUE IN ParsedOrRaw(raw, m.y, m.mo, m.d, m.clock)
        ELSE IF found # {}
             THEN LET m == CHOOSE m \in found : TRUE IN ParsedOrRaw(raw, Now.y, m.mo, m.d, m.clock)
        ELSE raw

(* a faulty variant of normalize_time: a text no pattern takes is        *)
(* returned as it came, not as it was cleaned                             *)
normalize_time_uncleaned(text) ==
    IF text = <<>> THEN <<>>
    ELSE IF Recognized(Cleaned(text)) THEN Converted(Cleaned(text))
    ELSE text

normalize_time(text) ==
    IF text = <<>> THEN <<>>
    ELSE Converted(Cleaned(text))

(* normalize_time under direct call: the texts are a core, one for each  *)
(* pattern and for the texts no pattern takes, between a prefix and a     *)
(* suffix                                                                 *)
TimeCores ==
    { <<"gang", "gang">>,
      <<"5", "fen", "zhong", "qian">>,
      <<"3", "1", "fen", "zhong", "qian">>,
      <<"2", "xiao", "shi", "qian">>,
      <<"2", "5", " ", "xiao", "shi", "qian">>,
      <<"jin", "tian", "1", ":", "5">>,
      <<"jin", "tian", " ", "1", "2", ":", "3", "0">>,
      <<"jin", "tian", "2", "5", ":", "6", "1">>,
      <<"zuo", "tian", "9", ":", "0", "5">>,
      <<"1", "yue", "2", "ri">>,
      <<"1", "yue", "2", "ri", " ", "3", ":", "4">>,
      <<"1", "3", "yue", "2", "ri">>,
      <<"2", "yue", "3", "0", "ri">>,
      <<"2", "yue", "2", "8", "ri", "2", "3", ":", "5", "9">>,
      <<"2", "0", "2", "4", "-", "1", "-", "2">>,
      <<"2", "0", "2", "4", "/", "0", "2", "/", "2", "9", " ", "0", "3", ":", "0", "4">>,
      <<"2", "0", "2", "4", "-", "1", "3", "-", "0", "1", " ", "0", "0", ":", "0", "0">>,
      <<"0", "9", "9", "9", "-", "1", "-", "1">>,
      <<"2", "0", "2", "4", "-", "1", "-", "2", " ", "2", "4", ":", "0", "0">>,
      <<"1", "yue", "2", "ri", "x", "3", ":", "4">>,
      <<"x", "1", "2", "yue", "3", "1", "ri", "x", "2", "3", ":", "5", "9">>,
      <<"3", "tian", "qian">>,
      <<"x">>,
      <<"2", "0", "2", "4", "nian">>,
      <<"5">>,
      <<>> }

TimePrefixes == {<<>>, <<" ">>, FaBuYu, FaBuYu \o <<" ">>}

TimeSuffixes == {<<>>, <<" ">>, <<"x">>}

TimeTexts == {a \o b \o c : a \in TimePrefixes, b \in TimeCores, c \in TimeSuffixes}

InitNormalize ==
    /\ variant = "topic_detail"
    /\ InitControl
    /\ session = NoSession
    /\ FreshFiles
    /\ pre = files
    /\ site = NoSite
    /\ fn_in \in TimeTexts
    /\ fn_out = <<>>

CallNormalize ==
    /\ fn_out = <<>>
    /\ fn_out' = <<normalize_time(fn_in)>>
    /\ UNCHANGED <<variant, pc, retry_count, fetches, delays, got_list, status, saves, hour,
                   hourly, summary, archive, readme, pre, words, site, fn_in>>
    /\ UNCHANGED collector

NextNormalize == CallNormalize

SpecNormalize == InitNormalize /\ [][NextNormalize]_vars

-----------------------------------------------------------------------------
(* get_post_details (topic_detail.py): the timestamp of the post.  A page *)
(* is what the detail page holds: the text of the first link of the from  *)
(* node, the content of the meta tag weibo:publish_time, the time tag     *)
(* with its datetime attribute and its text, and the text nodes in page   *)
(* order, each with the answer of _is_text_node_likely_time; None stands  *)
(* for an element the page does not have.  failed says that page.goto     *)
(* raised.                                                                *)

(* the cascade of lines 307-361 over the sources of a timestamp in their *)
(* order: a source that has a text is normalized when no timestamp has    *)
(* been found yet, and the meta tag also when the one found holds one of  *)
(* the characters of a relative time                                      *)
RECURSIVE timestamp_final(_, _)
timestamp_final(found, sources) ==
    IF sources = <<>> THEN found
    ELSE LET due == /\ Head(sources).text # <<>>
                    /\ \/ found = <<>>
                       \/ /\ Head(sources).meta
                          /\ \E i \in 1..Len(found) :
                                 found[i] \in {"jin", "zuo", "tian", "fen", "zhong", "qian",
                                               "xiao", "shi"}
         IN  timestamp_final(IF due THEN normalize_time(Head(sources).text) ELSE found,
                             Tail(sources))

(* the two re.sub of the content and its strip: every leftmost match of *)
(* L[^\s\u200b]*caption goes, the match being the longest, then every run *)
(* of two or more spaces becomes one space.  The caption, the five        *)
(* characters that read "'s weibo video", is the one token de_weibo_shipin *)
clean_content(content) ==
    LET RECURSIVE uncaptioned(_)
        uncaptioned(t) ==
            IF t = <<>> THEN <<>>
            ELSE LET ends == {j \in 2..Len(t) :
                                 /\ t[j] = "de_weibo_shipin"
                                 /\ \A k \in 2..(j - 1) : t[k] \notin {" ", "zwsp"}}
                 IN  IF t[1] = "L" /\ ends # {}
                     THEN uncaptioned(SubSeq(t, (CHOOSE j \in ends : \A k \in ends : k <= j) + 1,
                                             Len(t)))
                     ELSE <<t[1]>> \o uncaptioned(Tail(t))
        RECURSIVE squeezed(_)
        squeezed(t) ==
            IF t = <<>> THEN <<>>
            ELSE IF t[1] = " " /\ Len(t) >= 2 /\ t[2] = " "
                 THEN squeezed(Tail(t))
                 ELSE <<t[1]>> \o squeezed(Tail(t))
    IN  Strip(squeezed(uncaptioned(content)))

(* a faulty variant of video_page_link: without a play page there is no  *)
(* link                                                                   *)
video_page_link_or_none(page, detail_url) ==
    LET hits == {i \in 1..Len(page.hrefs) :
                    \E k \in 1..Len(page.hrefs[i]) : page.hrefs[i][k] = "/tv/show/"}
        href == page.hrefs[CHOOSE i \in hits : \A j \in hits : i <= j]
    IN  IF page.failed \/ hits = {} THEN <<>>
        ELSE IF href[1] \in {"http://weibo.com", "https://weibo.com"} THEN href
        ELSE <<"https://weibo.com">> \o href

(* video_link: detail_url, or the href of the first link of the page     *)
(* that holds /tv/show/, as it is when it begins with http and joined to  *)
(* https://weibo.com otherwise (the hrefs here begin with the host or     *)
(* with a slash); the except branch gives detail_url                      *)
video_page_link(page, detail_url) ==
    LET hits == {i \in 1..Len(page.hrefs) :
                    \E k \in 1..Len(page.hrefs[i]) : page.hrefs[i][k] = "/tv/show/"}
        href == page.hrefs[CHOOSE i \in hits : \A j \in hits : i <= j]
    IN  IF page.failed \/ hits = {} THEN detail_url
        ELSE IF href[1] \in {"http://weibo.com", "https://weibo.com"} THEN href
        ELSE <<"https://weibo.com">> \o href

(* the post get_post_details returns, built from the page, or by the     *)
(* except branch from the list-page data alone.  The sources of the       *)
(* timestamp: the first link of the from node, the meta tag, the time tag *)
(* by its datetime or else its text, the first short text node that looks *)
(* like a date and sits near the meta information, the list page.  The    *)
(* content is cleaned when video_link is not empty, in the except branch  *)
(* when detail_url is not empty, which is the same                        *)
get_post_details(page, detail_url, post_data) ==
    LET DateLike(t) ==
            \E i \in 1..Len(t) :
                \/ /\ 4 \in DigitRuns(t, i, 4, 4)
                   /\ At(t, i + 4, <<"-">>) \/ At(t, i + 4, <<"/">>)
                   /\ \E k \in DigitRuns(t, i + 5, 1, 2) :
                          /\ At(t, i + 5 + k, <<"-">>) \/ At(t, i + 5 + k, <<"/">>)
                          /\ DigitRuns(t, i + 6 + k, 1, 2) # {}
                \/ \E k \in DigitRuns(t, i, 1, 2) :
                       /\ At(t, i + k, <<"yue">>)
                       /\ \E l \in DigitRuns(t, i + k + 1, 1, 2) : At(t, i + k + 1 + l, <<"ri">>)
        hits == {i \in 1..Len(page.nodes) :
                    /\ Strip(page.nodes[i].txt) # <<>>
                    /\ Len(Strip(page.nodes[i].txt)) <= 60
                    /\ DateLike(Strip(page.nodes[i].txt))
                    /\ page.nodes[i].likely}
        Source(text, meta) == [text |-> text, meta |-> meta]
        from_list == Source(post_data.timestamp, FALSE)
        from_page ==
            << Source(IF page.from_link = None THEN <<>> ELSE Strip(page.from_link[1]), FALSE),
               Source(IF page.meta = None THEN <<>> ELSE page.meta[1], TRUE),
               Source(IF page.time_tag = None THEN <<>>
                      ELSE IF page.time_tag[1].datetime # None /\ page.time_tag[1].datetime[1] # <<>>
                           THEN page.time_tag[1].datetime[1]
                      ELSE Strip(page.time_tag[1].text), FALSE),
               Source(IF hits = {} THEN <<>>
                      ELSE Strip(page.nodes[CHOOSE i \in hits : \A j \in hits : i <= j].txt), FALSE),
               from_list >>
        video_link == video_page_link(page, detail_url)
    IN  [timestamp |-> timestamp_final(<<>>, IF page.failed THEN <<from_list>> ELSE from_page),
         video_link |-> video_link,
         content |-> IF video_link # <<>> THEN clean_content(post_data.content)
                     ELSE post_data.content]

(* the texts the elements of a page and the list page carry *)
StampTexts ==
    { <<"3", "tian", "qian">>,
      <<"5", "fen", "zhong", "qian">>,
      <<"2", "0", "2", "4", "-", "1", "-", "2">>,
      <<"1", "3", "yue", "2", "ri">> }

DetailPages ==
    LET Optional(S) == {None} \cup {Some(x) : x \in S}
    IN  [failed : BOOLEAN,
         from_link : Optional(StampTexts \cup {<<" ">>}),
         meta : Optional(StampTexts),
         time_tag : Optional([datetime : Optional(StampTexts), text : {<<>>}]
                             \cup [datetime : {None}, text : StampTexts]),
         nodes : {<<>>} \cup {<<[txt |-> t, likely |-> l]>> :
                                 t \in StampTexts \cup {<<" ", "x">>}, l \in BOOLEAN},
         hrefs : {<<>>}]

InitDetail ==
    /\ variant = "topic_detail"
    /\ InitControl
    /\ session = NoSession
    /\ FreshFiles
    /\ pre = files
    /\ site = NoSite
    /\ LET Url == <<"https://weibo.com", "/1/", "P">>
           Play == <<"/tv/show/", "1">>
           Hrefs == { <<>>, <<Play>>, <<<<"https://weibo.com">> \o Play>>,
                      <<<<"/u/", "1">>>>, <<<<"/u/", "1">>, Play, <<"http://weibo.com">> \o Play>> }
           Contents == { <<>>, <<"x">>, <<"x", " ", " ", "y", " ">>,
                         <<"x", " ", "L", "u", "de_weibo_shipin", " ", "y">>,
                         <<"L", "u", "de_weibo_shipin", "L", "de_weibo_shipin", "x">>,
                         <<"L", " ", "de_weibo_shipin">>, <<"L", "zwsp", "de_weibo_shipin">>,
                         <<"l", "u", "de_weibo_shipin">> }
       IN  fn_in \in
               [page : DetailPages, detail_url : {Url},
                post_data : [timestamp : StampTexts \cup {<<>>}, content : {<<"x">>}]]
               \cup
               [page : [failed : BOOLEAN, from_link : {None}, meta : {None}, time_tag : {None},
                        nodes : {<<>>}, hrefs : Hrefs],
                detail_url : {<<>>, Url},
                post_data : [timestamp : {<<>>}, content : Contents]]
    /\ fn_out = <<>>

VisitDetail ==
    /\ fn_out = <<>>
    /\ fn_out' = <<get_post_details(fn_in.page, fn_in.detail_url, fn_in.post_data)>>
    /\ UNCHANGED <<variant, pc, retry_count, fetches, delays, got_list, status, saves, hour,
                   hourly, summary, archive, readme, pre, words, site, fn_in>>
    /\ UNCHANGED collector

SpecDetail == InitDetail /\ [][VisitDetail]_vars

-----------------------------------------------------------------------------
(* get_top_20_hot_posts and _login_and_update_cookies (topic_detail.py).  *)
(* Cookies are a list: <<>>, <<"old">> for the ones the call finds in     *)
(* weibo_cookies.json, <<"new">> for the ones of a login.  A session file *)
(* is None while it does not exist, and otherwise holds the cookies that  *)
(* were written to it.  A card of a result page is the detail URL of its  *)
(* from link, a number, and 0 for a card without text or without link.    *)

_load_cookies_from_file(session_) ==
    IF session_.weibo_cookies = None THEN <<>> ELSE session_.weibo_cookies[1]

(* each of the two files is written unless its write raises; written     *)
(* names the writes that go through                                       *)
_persist_login_state(session_, storage, written) ==
    [auth_state |-> IF "auth_state" \in written THEN Some(storage) ELSE session_.auth_state,
     weibo_cookies |-> IF "weibo_cookies" \in written THEN Some(storage)
                       ELSE session_.weibo_cookies]

(* what the browser and the site answer during a login: the launch of    *)
(* the browser with its context and page goes through or raises, the home *)
(* page shows the success marker under the stored state or not (goto      *)
(* raised, or the wait ran out), the goto of the login page goes through  *)
(* or raises, the wait for the marker ends with the marker, with          *)
(* TimeoutError or with another error of the browser                      *)
LoginAnswers ==
    [launch : BOOLEAN, home : BOOLEAN, login_page : BOOLEAN,
     wait : {"marker", "timeout", "error"}, storage : {<<>>, <<"new">>},
     written : SUBSET {"auth_state", "weibo_cookies"}]

(* a faulty variant of _login_and_update_cookies: the state is persisted  *)
(* before the wait for the marker, so also when the wait runs out         *)
_login_persisting_first(session_, a) ==
    LET End(step, seen, files_, result) ==
            [step |-> step, seen |-> seen, session |-> files_, result |-> result]
        Persisted == _persist_login_state(session_, a.storage, a.written)
    IN  IF ~a.launch THEN End("launch", FALSE, session_, Raised("Error"))
        ELSE IF session_.auth_state # None /\ a.home
             THEN End("home", TRUE, Persisted, Returned(Some(a.storage)))
        ELSE IF ~a.login_page THEN End("login_page", FALSE, session_, Raised("Error"))
        ELSE IF a.wait = "timeout" THEN End("wait", FALSE, Persisted, Returned(None))
        ELSE IF a.wait = "error" THEN End("wait", FALSE, Persisted, Raised("Error"))
        ELSE End("wait", TRUE, Persisted, Returned(Some(a.storage)))

(* the step the login ended at, whether the marker was seen, the session  *)
(* files as it leaves them, and the cookies or None it returns or the     *)
(* exception it lets through                                              *)
_login_and_update_cookies(session_, a) ==
    LET End(step, seen, files_, result) ==
            [step |-> step, seen |-> seen, session |-> files_, result |-> result]
        Persisted == _persist_login_state(session_, a.storage, a.written)
    IN  IF ~a.launch THEN End("launch", FALSE, session_, Raised("Error"))
        ELSE IF session_.auth_state # None /\ a.home
             THEN End("home", TRUE, Persisted, Returned(Some(a.storage)))
        ELSE IF ~a.login_page THEN End("login_page", FALSE, session_, Raised("Error"))
        ELSE IF a.wait = "timeout" THEN End("wait", FALSE, session_, Returned(None))
        ELSE IF a.wait = "error" THEN End("wait", FALSE, session_, Raised("Error"))
        ELSE End("wait", TRUE, Persisted, Returned(Some(a.storage)))

(* a faulty variant of collect_list_page: seen_detail_urls is not asked *)
RECURSIVE collect_seen_again(_, _)
collect_seen_again(data, cards) ==
    IF cards = <<>> THEN [data |-> data, completed |-> FALSE]
    ELSE IF Head(cards) = 0 THEN collect_seen_again(data, Tail(cards))
    ELSE IF Len(data) + 1 >= MAX_POSTS_TO_FETCH
         THEN [data |-> Append(data, Head(cards)), completed |-> TRUE]
    ELSE collect_seen_again(Append(data, Head(cards)), Tail(cards))

(* a faulty variant of collect_list_page: the page is read to its end *)
RECURSIVE collect_to_the_end(_, _)
collect_to_the_end(data, cards) ==
    IF cards = <<>> THEN [data |-> data, completed |-> Len(data) >= MAX_POSTS_TO_FETCH]
    ELSE IF Head(cards) = 0 \/ \E i \in 1..Len(data) : data[i] = Head(cards)
         THEN collect_to_the_end(data, Tail(cards))
    ELSE collect_to_the_end(Append(data, Head(cards)), Tail(cards))

(* collect_list_page over the cards of one page: initial_posts_data after *)
(* it, and what it returns.  seen_detail_urls holds the URLs of           *)
(* initial_posts_data at every moment.                                    *)
RECURSIVE collect_list_page(_, _)
collect_list_page(data, cards) ==
    IF cards = <<>> THEN [data |-> data, completed |-> FALSE]
    ELSE IF Head(cards) = 0 \/ \E i \in 1..Len(data) : data[i] = Head(cards)
         THEN collect_list_page(data, Tail(cards))
    ELSE IF Len(data) + 1 >= MAX_POSTS_TO_FETCH
         THEN [data |-> Append(data, Head(cards)), completed |-> TRUE]
    ELSE collect_list_page(Append(data, Head(cards)), Tail(cards))

(* the result pages the site can show: a card that is skipped, a page    *)
(* with a repeated card, pages with one card short of the maximum, with   *)
(* the maximum and with more, a page that overlaps them, a page of new    *)
(* cards                                                                  *)
CardPages ==
    LET Cards(first, n) == [i \in 1..n |-> first + i - 1]
    IN  { <<0>>, <<1, 0, 1, 2>>, Cards(1, MAX_POSTS_TO_FETCH - 1), Cards(1, MAX_POSTS_TO_FETCH),
          Cards(1, MAX_POSTS_TO_FETCH + 2), Cards(MAX_POSTS_TO_FETCH - 5, 8),
          Cards(101, MAX_POSTS_TO_FETCH + 2) }

InitCollect ==
    /\ variant = "topic_detail"
    /\ InitControl
    /\ session \in [auth_state : {None, Some(<<"old">>)}, weibo_cookies : {None, Some(<<"old">>)}]
    /\ FreshFiles
    /\ pre = files
    /\ site = NoSite
    /\ fn_in = None
    /\ fn_out = <<>>

(* the call, up to the loop *)
CallCollector ==
    /\ pc = "idle"
    /\ pc' = "attempt"
    /\ cookies_for_context' = _load_cookies_from_file(session)
    /\ UNCHANGED <<variant, scraper, site, fn_in, fn_out, attempt, context, session,
                   login_results, walls, failures, initial_posts_data, loaded, tasks, started, finished>>

(* a faulty variant of Attempt: a goto that raises on the first attempt   *)
(* ends the call, the login is started only for the missing card          *)
AttemptLoginOnMarker ==
    /\ pc = "attempt"
    /\ attempt < 2
    /\ attempt' = attempt + 1
    /\ \E outcome \in {"raises", "cards", "goto", "marker"} :
          CASE outcome = "raises" ->
                   /\ pc' = "done"
                   /\ fn_out' = <<Raised("Error")>>
                   /\ UNCHANGED <<context, walls, failures>>
            [] outcome = "cards" ->
                   /\ pc' = "collect"
                   /\ context' = Some(cookies_for_context)
                   /\ UNCHANGED <<fn_out, walls, failures>>
            [] outcome \in {"goto", "marker"} ->
                   /\ walls' = walls + 1
                   /\ failures' = Append(failures, outcome)
                   /\ context' = None
                   /\ IF attempt + 1 >= 2 \/ outcome = "goto"
                      THEN pc' = "done" /\ fn_out' = <<Returned(<<>>)>>
                      ELSE pc' = "login" /\ fn_out' = fn_out
    /\ UNCHANGED <<variant, scraper, site, fn_in, cookies_for_context, session,
                   login_results, initial_posts_data, loaded, tasks, started, finished>>

(* one iteration of the loop up to the break, the return or the call of  *)
(* the login: the browser, the context and the page are made, which may   *)
(* raise; then the goto of the first result page raises, or the wait for  *)
(* a card on it runs out, or a card shows.  One except branch takes both  *)
(* failures                                                               *)
Attempt ==
    /\ pc = "attempt"
    /\ attempt < 2
    /\ attempt' = attempt + 1
    /\ \E outcome \in {"raises", "cards", "goto", "marker"} :
          CASE outcome = "raises" ->
                   /\ pc' = "done"
                   /\ fn_out' = <<Raised("Error")>>
                   /\ UNCHANGED <<context, walls, failures>>
            [] outcome = "cards" ->
                   /\ pc' = "collect"
                   /\ context' = Some(cookies_for_context)
                   /\ UNCHANGED <<fn_out, walls, failures>>
            [] outcome \in {"goto", "marker"} ->
                   /\ walls' = walls + 1
                   /\ failures' = Append(failures, outcome)
                   /\ context' = None
                   /\ IF attempt + 1 >= 2
                      THEN pc' = "done" /\ fn_out' = <<Returned(<<>>)>>
                      ELSE pc' = "login" /\ fn_out' = fn_out
    /\ UNCHANGED <<variant, scraper, site, fn_in, cookies_for_context, session,
                   login_results, initial_posts_data, loaded, tasks, started, finished>>

(* a faulty variant of Login: the cookies of the login are not taken *)
LoginForgotten ==
    /\ pc = "login"
    /\ \E a \in LoginAnswers :
          \E r \in {_login_and_update_cookies(session, a)} :
              /\ session' = r.session
              /\ login_results' = Append(login_results,
                                         [step |-> r.step, seen |-> r.seen, result |-> r.result])
              /\ IF ~r.result.ok
                 THEN pc' = "done" /\ fn_out' = <<r.result>>
                 ELSE IF r.result.val = None \/ r.result.val[1] = <<>>
                 THEN pc' = "done" /\ fn_out' = <<Returned(<<>>)>>
                 ELSE pc' = "attempt" /\ fn_out' = fn_out
    /\ UNCHANGED <<variant, scraper, site, fn_in, attempt, context, walls, failures, cookies_for_context,
                   initial_posts_data, loaded, tasks, started, finished>>

(* the except branch after the first wall: the login, whose exception    *)
(* nothing catches, and the return of [] when it gives no cookies         *)
Login ==
    /\ pc = "login"
    /\ \E a \in LoginAnswers :
          \E r \in {_login_and_update_cookies(session, a)} :
              /\ session' = r.session
              /\ login_results' = Append(login_results,
                                         [step |-> r.step, seen |-> r.seen, result |-> r.result])
              /\ IF ~r.result.ok
                 THEN pc' = "done" /\ fn_out' = <<r.result>>
                      /\ cookies_for_context' = cookies_for_context
                 ELSE IF r.result.val = None \/ r.result.val[1] = <<>>
                 THEN pc' = "done" /\ fn_out' = <<Returned(<<>>)>>
                      /\ cookies_for_context' = <<>>
                 ELSE pc' = "attempt" /\ fn_out' = fn_out
                      /\ cookies_for_context' = r.result.val[1]
    /\ UNCHANGED <<variant, scraper, site, fn_in, attempt, context, walls, failures,
                   initial_posts_data, loaded, tasks, started, finished>>

(* collect_list_page(page, 1) over the first result page *)
CollectFirst ==
    /\ pc = "collect"
    /\ \E cards \in CardPages :
          initial_posts_data' = collect_list_page(<<>>, cards).data
    /\ loaded' = <<[page |-> 1, total |-> 0]>>
    /\ pc' = "pages"
    /\ UNCHANGED <<variant, scraper, site, fn_in, fn_out, attempt, cookies_for_context, context,
                   session, login_results, walls, failures, tasks, started, finished>>

(* one iteration of the loop over the further result pages; the page     *)
(* loads and is collected, or its load raises; next_page_index is one     *)
(* more than the number of pages loaded so far                            *)
FetchPage ==
    /\ pc = "pages"
    /\ Len(initial_posts_data) < MAX_POSTS_TO_FETCH
    /\ Len(loaded) + 1 <= MAX_SEARCH_PAGES
    /\ loaded' = Append(loaded, [page |-> Len(loaded) + 1, total |-> Len(initial_posts_data)])
    /\ \/ UNCHANGED initial_posts_data
       \/ \E cards \in CardPages :
             initial_posts_data' = collect_list_page(initial_posts_data, cards).data
    /\ UNCHANGED <<variant, pc, scraper, site, fn_in, fn_out, attempt, cookies_for_context,
                   context, session, login_results, walls, failures, tasks, started, finished>>

(* the end of that loop: one get_post_details per card is handed to      *)
(* asyncio.gather                                                         *)
GatherPosts ==
    /\ pc = "pages"
    /\ ~(Len(initial_posts_data) < MAX_POSTS_TO_FETCH /\ Len(loaded) + 1 <= MAX_SEARCH_PAGES)
    /\ tasks' = Len(initial_posts_data)
    /\ started' = 0
    /\ finished' = 0
    /\ pc' = "gather"
    /\ UNCHANGED <<variant, scraper, site, fn_in, fn_out, attempt, cookies_for_context, context,
                   session, login_results, walls, failures, initial_posts_data, loaded>>

(* a coroutine of the running gather begins; nothing limits how many of  *)
(* them run at a time                                                     *)
StartTask ==
    /\ pc = "gather"
    /\ started < tasks
    /\ started' = started + 1
    /\ UNCHANGED <<variant, pc, scraper, site, fn_in, fn_out, attempt, cookies_for_context,
                   context, session, login_results, walls, failures, initial_posts_data, loaded,
                   tasks, finished>>

(* a coroutine of the running gather returns *)
FinishTask ==
    /\ pc = "gather"
    /\ finished < started
    /\ finished' = finished + 1
    /\ UNCHANGED <<variant, pc, scraper, site, fn_in, fn_out, attempt, cookies_for_context,
                   context, session, login_results, walls, failures, initial_posts_data, loaded,
                   tasks, started>>

(* context.new_page() of a coroutine that has begun raises: the call is *)
(* made before get_post_details' try, so the gather raises, the except    *)
(* branch around it sets posts to [], the browser is closed and [] is     *)
(* returned                                                               *)
VisitRaises ==
    /\ pc = "gather"
    /\ finished < started
    /\ fn_out' = <<Returned(<<>>)>>
    /\ context' = None
    /\ pc' = "done"
    /\ UNCHANGED <<variant, scraper, site, fn_in, attempt, cookies_for_context, session,
                   login_results, walls, failures, initial_posts_data, loaded, tasks, started, finished>>

(* the gather is through: every visit gave a post, the page's or, when   *)
(* its goto or its parsing raised, the one made of the card's data; one   *)
(* post per card, in the order of the cards, the browser is closed        *)
ReturnPosts ==
    /\ pc = "gather"
    /\ finished = tasks
    /\ fn_out' = <<Returned([i \in 1..Len(initial_posts_data) |->
                                [detail_url |-> initial_posts_data[i]]])>>
    /\ context' = None
    /\ pc' = "done"
    /\ UNCHANGED <<variant, scraper, site, fn_in, attempt, cookies_for_context, session,
                   login_results, walls, failures, initial_posts_data, loaded, tasks, started, finished>>

NextCollect ==
    \/ CallCollector \/ Attempt \/ Login \/ CollectFirst \/ FetchPage
    \/ GatherPosts \/ StartTask \/ FinishTask \/ VisitRaises \/ ReturnPosts

SpecCollect == InitCollect /\ [][NextCollect]_vars

-----------------------------------------------------------------------------
(* bootstrap's gather over the topics, one task at a time: a task is a   *)
(* process_item, it begins with its call of fetch_trending_detail and in  *)
(* main.py it returns when that call has returned; started and finished   *)
(* count the calls of fetch_trending_detail                               *)

(* a snapshot of up to MaxTopics topics, promoted ones among them; every *)
(* request for the detail of a topic is answered                          *)
InitGather ==
    /\ variant \in {"main", "enhanced"}
    /\ InitControl
    /\ session = NoSession
    /\ \E n \in 0..MaxTopics : \E promoted \in SUBSET (1..n) :
          site = [items |-> [i \in 1..n |->
                                [desc |-> "A", desc_extr |-> Some(Wan52), promotion |-> i \in promoted,
                                 category |-> None, description |-> None, scheme |-> Some("u")]],
                  details |-> [i \in 1..n |->
                                  IF variant = "enhanced" /\ i \in promoted THEN NoDetail
                                  ELSE Detail1],
                  posts |-> [i \in 1..n |-> <<>>]]
    /\ FreshFiles
    /\ pre = files
    /\ fn_in = None
    /\ fn_out = <<>>

(* an iteration whose fetch gives the topics of the site, up to the      *)
(* gather: one task per topic that is not skipped                         *)
GatherTopics ==
    /\ pc = "loop"
    /\ retry_count < MAX_RETRIES
    /\ site.items # <<>>
    /\ fetches' = fetches + 1
    /\ got_list' = TRUE
    /\ tasks' = Len(Selected(variant, site.items, 1))
    /\ started' = 0
    /\ finished' = 0
    /\ pc' = "gather"
    /\ UNCHANGED <<variant, retry_count, delays, status, saves, hour, hourly, summary, archive,
                   readme, pre, words, site, fn_in, fn_out, attempt, cookies_for_context,
                   context, session, login_results, walls, failures, initial_posts_data, loaded>>

(* the gather is through: the rest of the iteration, as in FetchItems *)
Gathered ==
    /\ pc = "gather"
    /\ variant \in {"main", "enhanced"}
    /\ finished = tasks
    /\ \E g \in {gather_items(variant, site.items, site.details, site.posts)} :
          IF ~g.ok
          THEN /\ status' = "process_raised"
               /\ Handler
               /\ UNCHANGED <<hourly, summary, archive, readme, words>>
          ELSE /\ words' = g.val
               /\ \E m \in {merge(variant, g.val, read_file(summary))} :
                     /\ SaveBoth(g.val, m, retry_count + 1 >= MAX_RETRIES)
                     /\ IF m.ok
                        THEN /\ status' = "saved"
                             /\ pc' = "done"
                             /\ UNCHANGED <<retry_count, delays>>
                        ELSE /\ status' = "save_raised"
                             /\ Handler
    /\ UNCHANGED <<variant, fetches, got_list, saves, hour, pre, site, fn_in, fn_out>>
    /\ UNCHANGED collector

SpecGather == InitGather /\ [][Start \/ GatherTopics \/ StartTask \/ FinishTask \/ Gathered]_vars

-----------------------------------------------------------------------------
(* fetch_trending_detail (main.py, test,py.py) under direct call.  The    *)
(* argument is what the site would answer to the requests of the call,    *)
(* one after the other: None for a request that fails or a page that      *)
(* cannot be read, the detail of the page otherwise.                      *)

(* a faulty variant of fetch_trending_detail: a failed request is made   *)
(* again, with a pause of a second                                        *)
fetch_trending_detail_again(answers) ==
    IF answers[1] # None \/ Len(answers) < 2
    THEN [requests |-> 1, delays |-> <<>>,
          result |-> Returned(IF answers[1] = None THEN NoDetail ELSE answers[1][1])]
    ELSE [requests |-> 2, delays |-> <<1>>,
          result |-> Returned(IF answers[2] = None THEN NoDetail ELSE answers[2][1])]

(* the one request of the call, the pauses it makes, and what it returns: *)
(* the detail, or {} from the except branch                               *)
fetch_trending_detail(answers) ==
    [requests |-> 1, delays |-> <<>>,
     result |-> Returned(IF answers[1] = None THEN NoDetail ELSE answers[1][1])]

InitFetch ==
    /\ variant \in {"main", "enhanced"}
    /\ InitControl
    /\ session = NoSession
    /\ FreshFiles
    /\ pre = files
    /\ site = NoSite
    /\ fn_in \in [1..MaxAnswers -> {None, Some(Detail1), Some(Detail2)}]
    /\ fn_out = <<>>

CallFetch ==
    /\ fn_out = <<>>
    /\ fn_out' = <<fetch_trending_detail(fn_in)>>
    /\ UNCHANGED <<variant, pc, scraper, site, fn_in>>
    /\ UNCHANGED collector

SpecFetch == InitFetch /\ [][CallFetch]_vars

-----------------------------------------------------------------------------
(* Properties of save_hourly_json and save_day_json, checked under SpecMerge; *)
(* pre[2] is summary.json as the latest call found it, words the list the     *)
(* latest call was given                                                      *)

(* the places of a title in a list *)
PlacesOf(list, t) == {i \in 1..Len(list) : list[i].title = t}

(* C1: across every merge, the hot, read_count, discuss_count and origin *)
(* of a title that is in the aggregate before and after the merge do not  *)
(* decrease.                                                              *)
C1_MergeMonotonic ==
    [][\A i \in 1..Len(summary.data) : \A j \in 1..Len(summary'.data) :
          LET old == summary.data[i]
              new == summary'.data[j]
              Kept(a, b) == a = None \/ (b # None /\ b[1] >= a[1])
          IN  old.title = new.title =>
                  /\ new.hot >= old.hot
                  /\ Kept(old.read_count, new.read_count)
                  /\ Kept(old.discuss_count, new.discuss_count)
                  /\ Kept(old.origin, new.origin)]_vars

C1_Witness ==
    /\ variant = "enhanced" /\ saves = 2 /\ status = "saved"
    /\ \E i \in 1..Len(pre[2].data) : \E k \in 1..Len(words) : \E j \in 1..Len(summary.data) :
          /\ pre[2].data[i].title = words[k].title
          /\ summary.data[j].title = words[k].title
          /\ words[k].hot < pre[2].data[i].hot
          /\ words[k].read_count # None /\ pre[2].data[i].read_count # None
          /\ words[k].read_count[1] < pre[2].data[i].read_count[1]
          /\ summary.data[j].hot = pre[2].data[i].hot
          /\ summary.data[j].read_count = pre[2].data[i].read_count

(* C2: after save_day_json, for a title that is in the list of the run   *)
(* and in the aggregate the call found, each of hot, read_count,          *)
(* discuss_count and origin is the larger of the stored and the current   *)
(* value.                                                                 *)
C2_MaxOfStoredAndCurrent ==
    saves > 0 =>
        \A k \in 1..Len(words) : \A i \in 1..Len(pre[2].data) :
            LET cur == words[k]
                prev == pre[2].data[i]
                MaxOpt(a, b) == IF a = None THEN b ELSE IF b = None THEN a
                                ELSE Some(Max(a[1], b[1]))
            IN  (cur.title = prev.title /\ Cardinality(PlacesOf(words, cur.title)) = 1) =>
                    \E j \in 1..Len(summary.data) :
                        /\ summary.data[j].title = cur.title
                        /\ summary.data[j].hot = Max(prev.hot, cur.hot)
                        /\ summary.data[j].read_count = MaxOpt(prev.read_count, cur.read_count)
                        /\ summary.data[j].discuss_count = MaxOpt(prev.discuss_count, cur.discuss_count)
                        /\ summary.data[j].origin = MaxOpt(prev.origin, cur.origin)

(* C3: after save_day_json, a title of the run that is in the aggregate  *)
(* the call found has the posts of the run and none of the stored ones,   *)
(* and a title that is on one side only is stored with the fields it had  *)
(* there.                                                                 *)
C3_PostsReplacedOthersCarried ==
    (variant = "enhanced" /\ saves > 0) =>
        /\ \A k \in 1..Len(words) : \A i \in 1..Len(pre[2].data) :
              (words[k].title = pre[2].data[i].title
                  /\ Cardinality(PlacesOf(words, words[k].title)) = 1) =>
                  \E j \in 1..Len(summary.data) :
                      /\ summary.data[j].title = words[k].title
                      /\ summary.data[j].posts = words[k].posts
        /\ \A i \in 1..Len(pre[2].data) :
              PlacesOf(words, pre[2].data[i].title) = {} =>
                  \E j \in 1..Len(summary.data) : summary.data[j] = pre[2].data[i]
        /\ \A k \in 1..Len(words) :
              (PlacesOf(pre[2].data, words[k].title) = {}
                  /\ Cardinality(PlacesOf(words, words[k].title)) = 1) =>
                  \E j \in 1..Len(summary.data) : summary.data[j] = words[k]

(* C4: merging a list into the aggregate that merging the same list into *)
(* the empty aggregate gave completes and gives that aggregate again.     *)
C4_MergeIdempotent ==
    [][(saves = 1 /\ status = "saved" /\ words' = words) =>
          (status' = "saved" /\ summary' = summary)]_vars

(* C5: in every hourly file and in summary.json, whatever calls were     *)
(* made, no two items have the same title.                                *)
C5_TitlesUnique ==
    /\ \A h \in Hours : \A i \in 1..Len(hourly[h].data) :
          PlacesOf(hourly[h].data, hourly[h].data[i].title) = {i}
    /\ \A i \in 1..Len(summary.data) :
          PlacesOf(summary.data, summary.data[i].title) = {i}

C5_Witness ==
    /\ saves = 2 /\ status = "saved"
    /\ Len(words) = 2 /\ words[1].title = words[2].title
    /\ Len(hourly[hour].data) = 1
    /\ Len(summary.data) = 1 /\ Len(pre[2].data) = 1

-----------------------------------------------------------------------------
(* Properties of extract_numbers, checked under SpecExtract *)

(* C10: extract_numbers returns, for every text, the integer formed by   *)
(* the decimal digits of the text in their order, and returns 0 without   *)
(* raising when the text is None, empty, or holds no digit.               *)
C10_ExtractNumbersTotal ==
    fn_out # <<>> =>
        LET text == IF fn_in = None THEN <<>> ELSE fn_in[1]
            digits == SelectSeq(text, LAMBDA c : c \in DecimalChars)
        IN  /\ fn_out[1].ok
            /\ fn_out[1].val = IntOfDigits(digits)

-----------------------------------------------------------------------------
(* Properties of a run of bootstrap, checked under Spec *)

(* the titles of a stored list, and the topics of the site that are not  *)
(* promoted                                                               *)
TitlesIn(list) == {list[i].title : i \in 1..Len(list)}

OrganicTitles == {site.items[k].desc : k \in {i \in 1..Len(site.items) : ~site.items[i].promotion}}

(* the list of the end-to-end example: A with the heat text 5.2wan,      *)
(* B promoted with the heat text ads                                      *)
ExampleList ==
    << [desc |-> "A", desc_extr |-> Some(Wan52), promotion |-> FALSE,
        category |-> None, description |-> None, scheme |-> Some("u")],
       [desc |-> "B", desc_extr |-> Some(Ads), promotion |-> TRUE,
        category |-> None, description |-> None, scheme |-> Some("u")] >>

(* C6 as stated: when every fetch fails the run makes 5 attempts 5 s     *)
(* apart, waits a 10-minute cooldown, makes a final attempt and returns   *)
(* after exactly 6 attempts.                                              *)
C6_CooldownAndSixthAttempt ==
    (pc = "done" /\ ~got_list /\ status = "fetch_failed") =>
        /\ fetches = MAX_RETRIES + 1
        /\ delays = <<5, 5, 5, 5, 600>>

(* C6, amended: when every fetch fails the run makes exactly MAX_RETRIES *)
(* attempts, sleeps 5 s between two consecutive attempts and nowhere      *)
(* else, and returns after the fifth failure.                             *)
C6_FiveAttemptsNoCooldown ==
    /\ fetches <= MAX_RETRIES
    /\ \A i \in 1..Len(delays) : delays[i] = 5
    /\ (pc = "done" /\ ~got_list /\ status = "fetch_failed") =>
          /\ fetches = MAX_RETRIES
          /\ Len(delays) = MAX_RETRIES - 1

C6_Witness ==
    /\ pc = "done" /\ ~got_list /\ status = "fetch_failed"
    /\ fetches = MAX_RETRIES /\ delays = <<5, 5, 5, 5>>

(* C7: a run in which no attempt obtains a trending list leaves the      *)
(* hourly file, summary.json, the archive and the README as they were     *)
(* before the run, and has returned once its attempts are used up.        *)
C7_FailedRunWritesNothing ==
    ~got_list =>
        /\ files = pre
        /\ retry_count >= MAX_RETRIES => pc = "done"

C7_Witness ==
    /\ pc = "done" /\ ~got_list /\ retry_count = MAX_RETRIES
    /\ summary.kind = "json" /\ files = pre

(* C8 as stated: no promoted entry and no entry whose heat value is not  *)
(* positive is in the hourly snapshot or the daily aggregate a run wrote. *)
C8_NoPromotedNoZeroHeat ==
    status = "saved" =>
        /\ \A i \in 1..Len(hourly[hour].data) :
              /\ hourly[hour].data[i].title \in OrganicTitles
              /\ ~hourly[hour].data[i].ads
              /\ hourly[hour].data[i].hot > 0
        /\ \A i \in 1..Len(summary.data) :
              /\ summary.data[i].title \in OrganicTitles \cup TitlesIn(pre[2].data)
              /\ ~summary.data[i].ads
              /\ summary.data[i].hot > 0

(* C8, amended: in the enhanced script no promoted entry of the fetched  *)
(* list is in the hourly snapshot or the daily aggregate a run wrote:     *)
(* every title a run stores is the title of a topic that is not promoted. *)
C8_EnhancedDropsPromoted ==
    variant = "enhanced" =>
        /\ TitlesIn(words) \subseteq OrganicTitles
        /\ TitlesIn(hourly[hour].data) \subseteq OrganicTitles \cup TitlesIn(pre[1][hour].data)
        /\ TitlesIn(summary.data) \subseteq OrganicTitles \cup TitlesIn(pre[2].data)
        /\ \A i \in 1..Len(summary.data) : ~summary.data[i].ads

C8_Witness ==
    /\ variant = "enhanced" /\ status = "saved"
    /\ pre[2].kind = "absent"
    /\ \E k \in 1..Len(site.items) : site.items[k].promotion /\ site.items[k].desc = "B"
    /\ TitlesIn(hourly[hour].data) = {"A"}
    /\ TitlesIn(summary.data) = {"A"}

(* C9 as stated: the run over the example list yields exactly one item,  *)
(* A with hot = 52000, and B is left out.                                 *)
C9_ScaledHeat ==
    (site.items = ExampleList /\ status = "saved") =>
        /\ Len(hourly[hour].data) = 1
        /\ hourly[hour].data[1].title = "A"
        /\ hourly[hour].data[1].hot = 52000

(* C9, amended: the hot value is the integer made of the digits of the   *)
(* heat text, 52 for 5.2wan; over the example list the enhanced script    *)
(* yields exactly one item, A with hot = 52, and leaves B out as          *)
(* promoted, while main.py, which makes a task for B too, gets the        *)
(* ValueError of extract_numbers on the text ads and yields nothing.      *)
C9_DigitsOfHeat ==
    site.items = ExampleList =>
        /\ (variant = "enhanced" /\ got_list) =>
              /\ Len(words) = 1
              /\ words[1].title = "A" /\ words[1].hot = 52
        /\ (variant = "enhanced" /\ status = "saved") =>
              /\ Len(hourly[hour].data) = 1
              /\ hourly[hour].data[1].title = "A" /\ hourly[hour].data[1].hot = 52
              /\ "B" \notin TitlesIn(summary.data)
        /\ variant = "main" => (words = <<>> /\ files = pre /\ status # "saved")

C9_Witness ==
    /\ site.items = ExampleList /\ variant = "enhanced" /\ status = "saved"
    /\ pre[2].kind = "absent"
    /\ hourly[hour].data[1].hot = 52
    /\ summary.data[1].hot = 52

-----------------------------------------------------------------------------
(* Properties of convert_to_number, checked under SpecConvert *)

(* C11: the conversion returns the exact scaled integer for a decimal    *)
(* number followed by wan (x 10^4) or yi (x 10^8), the integer part of a  *)
(* plain decimal number, 0 for None, the empty text, a text without a     *)
(* digit and a text with both suffixes, and never raises.                 *)
C11_ExactScaledOrZero ==
    fn_out # <<>> =>
        LET t == IF fn_in = None THEN <<>> ELSE fn_in[1]
            body == IF t = <<>> THEN <<>> ELSE SubSeq(t, 1, Len(t) - 1)
            last == IF t = <<>> THEN "" ELSE t[Len(t)]
            Decimal(x) == /\ \A i \in 1..Len(x) : x[i] \in DecimalChars \cup {"."}
                          /\ Cardinality({i \in 1..Len(x) : x[i] = "."}) <= 1
                          /\ \E i \in 1..Len(x) : x[i] \in DecimalChars
            Exact(x, k) == LET p == {i \in 1..Len(x) : x[i] = "."}
                               cut == IF p = {} THEN Len(x) + 1 ELSE CHOOSE i \in p : TRUE
                           IN  Shifted([int |-> SubSeq(x, 1, cut - 1),
                                        frac |-> SubSeq(x, cut + 1, Len(x))], k)
        IN  /\ fn_out[1].ok
            /\ (last = "wan" /\ Decimal(body)) => fn_out[1].val = Exact(body, 4)
            /\ (last = "yi" /\ Decimal(body)) => fn_out[1].val = Exact(body, 8)
            /\ Decimal(t) => fn_out[1].val = Exact(t, 0)
            /\ ((\A i \in 1..Len(t) : t[i] \notin DecimalChars) \/ (Has(t, "wan") /\ Has(t, "yi")))
                  => fn_out[1].val = Zero

-----------------------------------------------------------------------------
(* Properties of normalize_time, checked under SpecNormalize *)

(* C12 as stated: for a text that none of the patterns takes, the string *)
(* normalize_time returns is the text itself, character for character.    *)
C12_IdentityOnUnmatched ==
    (fn_out # <<>> /\ ~Recognized(Cleaned(fn_in))) => fn_out[1] = fn_in

(* C12, amended: for a text that none of the patterns takes, the string  *)
(* normalize_time returns is the text without its surrounding whitespace  *)
(* and without the prefix fa bu yu (published at), otherwise character    *)
(* for character; it is the text itself when the text has neither.        *)
C12_CleanedOnUnmatched ==
    (fn_out # <<>> /\ ~Recognized(Cleaned(fn_in))) =>
        /\ fn_out[1] = Strip(Removed(Strip(fn_in), FaBuYu))
        /\ (Strip(fn_in) = fn_in /\ Removed(fn_in, FaBuYu) = fn_in) => fn_out[1] = fn_in

C12_Witness ==
    /\ fn_in = FaBuYu \o <<" ", "3", "tian", "qian", " ">>
    /\ fn_out = << <<"3", "tian", "qian">> >>
    /\ ~Recognized(Cleaned(fn_in))

-----------------------------------------------------------------------------
(* Properties of get_post_details, checked under SpecDetail *)

(* C13: the timestamp of the post get_post_details returns is of the     *)
(* form YYYY-MM-DD HH:mm or is the empty string, whichever step of the    *)
(* cascade produced it, and also when the visit of the detail page failed *)
C13_CanonicalOrEmpty ==
    fn_out # <<>> =>
        LET t == fn_out[1].timestamp
            D(i) == t[i] \in DecimalChars
        IN  \/ t = <<>>
            \/ /\ Len(t) = 16
               /\ D(1) /\ D(2) /\ D(3) /\ D(4) /\ t[5] = "-" /\ D(6) /\ D(7) /\ t[8] = "-"
               /\ D(9) /\ D(10) /\ t[11] = " " /\ D(12) /\ D(13) /\ t[14] = ":"
               /\ D(15) /\ D(16)

-----------------------------------------------------------------------------
(* Properties of get_top_20_hot_posts, checked under SpecCollect *)

(* C14: whatever the result pages hold, get_top_20_hot_posts returns at  *)
(* most MAX_POSTS_TO_FETCH posts and no two of them from the same detail  *)
(* URL; no further result page is loaded once the total has reached the   *)
(* maximum, and at most MAX_SEARCH_PAGES pages are loaded.                *)
C14_BoundedDistinctPosts ==
    /\ Len(loaded) <= MAX_SEARCH_PAGES
    /\ \A i \in 2..Len(loaded) : loaded[i].total < MAX_POSTS_TO_FETCH
    /\ (fn_out # <<>> /\ fn_out[1].ok) =>
          LET posts == fn_out[1].val
          IN  /\ Len(posts) <= MAX_POSTS_TO_FETCH
              /\ \A i, j \in 1..Len(posts) :
                     posts[i].detail_url = posts[j].detail_url => i = j

C14_Witness ==
    /\ pc = "done"
    /\ fn_out # <<>> /\ fn_out[1].ok
    /\ Len(fn_out[1].val) = MAX_POSTS_TO_FETCH
    /\ Len(loaded) = 2
    /\ loaded[2].total = MAX_POSTS_TO_FETCH - 1

(* C15: in one call of get_top_20_hot_posts the login is called at most  *)
(* once, and after a login that gave cookies the first page is tried      *)
(* exactly once more; when the first page shows no card on both attempts  *)
(* the call returns [] without raising, and when the second attempt       *)
(* shows cards the collection runs in a context made with the cookies of  *)
(* the login.                                                             *)
C15_OneLoginOneRetry ==
    LET GaveCookies == /\ login_results # <<>>
                       /\ login_results[1].result.ok
                       /\ login_results[1].result.val # None
                       /\ login_results[1].result.val[1] # <<>>
    IN  /\ Len(login_results) <= 1
        /\ attempt <= 2
        /\ attempt = 2 => GaveCookies
        /\ GaveCookies => \/ pc = "attempt" /\ attempt = 1 /\ ENABLED Attempt
                          \/ attempt = 2 /\ pc # "attempt"
        /\ walls = 2 => (pc = "done" /\ fn_out = <<Returned(<<>>)>>)
        /\ (attempt = 2 /\ context # None) =>
               (walls = 1 /\ context = login_results[1].result.val /\ context = Some(<<"new">>))

C15_Witness ==
    /\ attempt = 2
    /\ walls = 1
    /\ Len(login_results) = 1
    /\ pc = "done"
    /\ fn_out # <<>> /\ fn_out[1].ok /\ fn_out[1].val # <<>>

(* C16: when the login does not give cookies, whatever the reason (the   *)
(* wait for the login ran out, the home page or the login page did not    *)
(* load, the browser failed), get_top_20_hot_posts returns [] and lets no *)
(* exception through.                                                     *)
C16_FailedLoginGivesEmptyList ==
    (/\ login_results # <<>>
     /\ ~(/\ login_results[1].result.ok
          /\ login_results[1].result.val # None
          /\ login_results[1].result.val[1] # <<>>))
        => (pc = "done" /\ fn_out = <<Returned(<<>>)>>)

(* C17: a call of _login_and_update_cookies writes the session files     *)
(* only when it has seen the success marker, at the home page or after    *)
(* the login page; when it has seen the marker at neither, the files are  *)
(* as they were and the call reports the failure: it returns None or      *)
(* ends with the exception of the step that failed.  Nothing else of the  *)
(* collector writes the files.                                            *)
C17_FilesWrittenOnlyAfterMarker ==
    [][LET n == Len(login_results')
       IN  /\ session' # session => (n = Len(login_results) + 1 /\ login_results'[n].seen)
           /\ (n = Len(login_results) + 1 /\ ~login_results'[n].seen) =>
                  /\ session' = session
                  /\ login_results'[n].result \in {Returned(None), Raised("Error")}]_vars

C17_Witness ==
    /\ login_results # <<>>
    /\ ~login_results[1].seen
    /\ login_results[1].result = Returned(None)
    /\ session = [auth_state |-> Some(<<"old">>), weibo_cookies |-> Some(<<"old">>)]

(* C19 as stated: at every moment of a run of the collector at most 4    *)
(* visits of detail pages (get_post_details) are in flight, however many  *)
(* cards were collected.                                                  *)
C19_AtMostFourVisits ==
    (variant = "topic_detail" /\ pc = "gather") => started - finished <= 4

(* C19, amended: no limiter bounds the visits; at every moment of a run  *)
(* the visits in flight are at most as many as the cards collected, which *)
(* are at most MAX_POSTS_TO_FETCH, and all of them can be in flight at    *)
(* once.                                                                  *)
C19_VisitsUpToCards ==
    (variant = "topic_detail" /\ pc = "gather") =>
        /\ started - finished <= Len(initial_posts_data)
        /\ Len(initial_posts_data) <= MAX_POSTS_TO_FETCH
        /\ tasks = Len(initial_posts_data)
        /\ (started < tasks => ENABLED StartTask)

C19_Witness ==
    /\ variant = "topic_detail"
    /\ pc = "gather"
    /\ started - finished = MAX_POSTS_TO_FETCH

-----------------------------------------------------------------------------
(* Properties of bootstrap's gather, checked under SpecGather *)

(* C18 as stated: at every moment of a run at most 5 calls of            *)
(* fetch_trending_detail are in flight, however many topics the snapshot  *)
(* has.                                                                   *)
C18_AtMostFiveFetches ==
    (variant \in {"main", "enhanced"} /\ pc = "gather") => started - finished <= 5

(* C18, amended: no limiter bounds the calls; at every moment of a run   *)
(* the calls of fetch_trending_detail in flight are at most as many as    *)
(* the topics bootstrap makes a task for, all topics of the snapshot in   *)
(* main.py and the ones that are not promoted in test,py.py, and all of   *)
(* them can be in flight at once.                                         *)
C18_FetchesUpToTopics ==
    (variant \in {"main", "enhanced"} /\ pc = "gather") =>
        /\ started - finished <= tasks
        /\ tasks = Cardinality({i \in 1..Len(site.items) :
                                   variant = "main" \/ ~site.items[i].promotion})
        /\ (started < tasks => ENABLED StartTask)

C18_Witness ==
    /\ variant \in {"main", "enhanced"}
    /\ pc = "gather"
    /\ started - finished > 5
    /\ started - finished = Len(site.items)

-----------------------------------------------------------------------------
(* Properties of fetch_trending_detail, checked under SpecFetch *)

(* C20 as stated: fetch_trending_detail makes up to 3 attempts with a    *)
(* short fixed pause between them, returns what the first attempt that    *)
(* goes through gives, and returns {} without raising when all fail.      *)
C20_UpToThreeAttempts ==
    fn_out # <<>> =>
        LET good == {k \in 1..3 : k <= Len(fn_in) /\ fn_in[k] # None}
            made == IF good = {} THEN 3 ELSE CHOOSE k \in good : \A j \in good : k <= j
        IN  /\ fn_out[1].result.ok
            /\ fn_out[1].requests = made
            /\ Len(fn_out[1].delays) = made - 1
            /\ \A i, j \in 1..Len(fn_out[1].delays) : fn_out[1].delays[i] = fn_out[1].delays[j]
            /\ fn_out[1].result.val = IF good = {} THEN NoDetail ELSE fn_in[made][1]

(* C20, amended: fetch_trending_detail makes one request and no pause;   *)
(* it returns the detail of the page when the request goes through and    *)
(* {} without raising when it fails.                                      *)
C20_OneAttempt ==
    fn_out # <<>> =>
        /\ fn_out[1].requests = 1
        /\ fn_out[1].delays = <<>>
        /\ fn_out[1].result.ok
        /\ fn_out[1].result.val = IF fn_in[1] = None THEN NoDetail ELSE fn_in[1][1]

C20_Witness ==
    /\ fn_out # <<>>
    /\ fn_in[1] = None
    /\ fn_in[2] # None
    /\ fn_out[1].result = Returned(NoDetail)
    /\ fn_out[1].requests = 1

-----------------------------------------------------------------------------
(* Further properties of the post collector, checked under SpecCollect *)

(* C21: a detail visit that fails never discards a post: when the call   *)
(* has collected cards and returns, the list it returns holds one post    *)
(* per collected card, in the order the cards were found, whichever step  *)
(* of a visit failed (opening the page, the navigation, the parsing).     *)
C21_OnePostPerCard ==
    (variant = "topic_detail" /\ pc = "done" /\ loaded # <<>>) =>
        /\ fn_out # <<>>
        /\ fn_out[1].ok
        /\ Len(fn_out[1].val) = Len(initial_posts_data)
        /\ \A i \in 1..Len(initial_posts_data) :
               fn_out[1].val[i].detail_url = initial_posts_data[i]

(* C26 as stated: the login is started only when the first result page   *)
(* loaded and showed no card; a first attempt whose goto raised does not  *)
(* start it.                                                              *)
C26_LoginOnlyOnMissingMarker ==
    (variant = "topic_detail" /\ (pc = "login" \/ login_results # <<>>)) =>
        (failures # <<>> /\ failures[1] = "marker")

(* C26, amended: the login is started after the first attempt failed,    *)
(* and it is started whichever of the two failed, the goto of the first   *)
(* result page or the wait for a card on it; a failure of the second      *)
(* attempt starts none.                                                   *)
C26_LoginOnAnyFirstFailure ==
    variant = "topic_detail" =>
        /\ (pc = "login" \/ login_results # <<>>) =>
               (failures # <<>> /\ failures[1] \in {"goto", "marker"})
        /\ (Len(failures) = 1 /\ attempt = 1) => (pc = "login" \/ Len(login_results) = 1)
        /\ Len(login_results) <= 1
        /\ pc = "login" => (Len(failures) = 1 /\ login_results = <<>>)

C26_Witness ==
    /\ variant = "topic_detail"
    /\ Len(login_results) = 1
    /\ failures # <<>>
    /\ failures[1] = "goto"

-----------------------------------------------------------------------------
(* Properties of the save functions on a day whose summary.json is not   *)
(* JSON, checked under SpecCorrupt                                        *)

(* C22: a summary.json that is not valid JSON is taken for an empty      *)
(* aggregate: save_day_json completes without raising and writes the      *)
(* merge of the run's words into the empty aggregate.                     *)
C22_MalformedReadAsEmpty ==
    (saves >= 1 /\ pre[2].kind = "text") =>
        /\ status = "saved"
        /\ \A m \in {merge(variant, words, EmptyFile)} : m.ok => summary = JsonFile(m.val)

-----------------------------------------------------------------------------
(* Further properties of a run of bootstrap, checked under Spec *)

(* C23: a failure is contained in its topic: a run that fetched the list *)
(* and does not end on a failed fetch has stored an item for every topic  *)
(* it made a task for, whatever the detail request, the post collection   *)
(* or the heat text of a topic gave.                                      *)
C23_FailuresContainedPerTopic ==
    (/\ variant \in {"main", "enhanced"}
     /\ pc = "done" /\ got_list /\ site.items # <<>>
     /\ status # "fetch_failed") =>
        /\ status = "saved"
        /\ \A k \in 1..Len(site.items) :
              (variant = "main" \/ ~site.items[k].promotion) =>
                  /\ site.items[k].desc \in TitlesIn(hourly[hour].data)
                  /\ site.items[k].desc \in TitlesIn(summary.data)

(* C30 as stated: only a failed fetch is retried: once a fetch gave a    *)
(* valid list, the list is not fetched again, whatever the tasks or the   *)
(* saves do, and a run makes at most MAX_RETRIES fetches.                 *)
C30_NoFetchAfterValidList ==
    [][(variant # "topic_detail") =>
          /\ got_list => fetches' = fetches
          /\ fetches' <= MAX_RETRIES]_vars

(* C30, amended: every exception of an iteration is retried, that of the *)
(* fetch as that of a task or of a save: after a valid list whose tasks   *)
(* or saves raised the run goes on to fetch the list again while fewer    *)
(* than MAX_RETRIES iterations have failed; nothing is fetched after an   *)
(* iteration that saved or that got an empty list; every fetch but the    *)
(* first follows a counted failure, so a run makes at most MAX_RETRIES    *)
(* fetches.                                                               *)
C30_RetryOnAnyException ==
    [][(variant # "topic_detail") =>
          /\ fetches' <= MAX_RETRIES
          /\ fetches' # fetches =>
                 /\ fetches' = fetches + 1
                 /\ fetches = retry_count
                 /\ status \in {"none", "fetch_failed", "process_raised", "save_raised"}
          /\ status \in {"saved", "no_items"} => fetches' = fetches
          /\ (status' \in {"process_raised", "save_raised"} /\ retry_count' < MAX_RETRIES) =>
                 pc' = "loop"]_vars

C30_Witness ==
    /\ variant \in {"main", "enhanced"}
    /\ got_list
    /\ status = "fetch_failed"
    /\ fetches >= 2
    /\ fetches <= MAX_RETRIES

-----------------------------------------------------------------------------
(* Further properties of the save functions, checked under SpecMerge *)

(* C28: the aggregate is closed under the merge: whatever save_day_json  *)
(* wrote to summary.json, the next call of the day takes it as the prior  *)
(* aggregate and completes, for every list of distinct titles a run can   *)
(* hand to it, a title stored without its counts and seen again included. *)
C28_ClosedUnderMerge ==
    [][(/\ variant = "enhanced"
        /\ saves' = saves + 1
        /\ Cardinality(TitlesIn(words')) = Len(words')) => status' = "saved"]_vars

-----------------------------------------------------------------------------
(* Further properties of get_post_details, checked under SpecDetail *)

-----------------------------------------------------------------------------
(* Properties of the day's heat, checked under SpecDay *)

(* C25 as stated: after any runs of main.py on a day, several in one     *)
(* hour included, the sum over the hour files equals the sum over         *)
(* summary.json.                                                          *)
C25_HoursEqualSummary ==
    (variant = "main" /\ saves >= 1) =>
        sum_hot_from_hours(hourly) = sum_hot_from_summary(summary)

(* C25, amended: the sum over the hour files never exceeds the sum over  *)
(* summary.json, and a run keeps the two equal when it is the first of    *)
(* its hour and lists no title twice; a later run of the same hour        *)
(* overwrites the hour's file, and of a title listed twice the hour file  *)
(* keeps the last heat, while summary.json keeps the largest.             *)
C25_HoursAtMostSummary ==
    [][(variant = "main") =>
          /\ sum_hot_from_hours(hourly') <= sum_hot_from_summary(summary')
          /\ (/\ saves' = saves + 1
              /\ sum_hot_from_hours(hourly) = sum_hot_from_summary(summary)
              /\ hourly[hour].kind = "absent"
              /\ Cardinality(TitlesIn(words')) = Len(words')) =>
                 sum_hot_from_hours(hourly') = sum_hot_from_summary(summary')]_vars

C25_Witness ==
    /\ variant = "main" /\ saves = 2
    /\ hourly[1].kind = "json" /\ hourly[2].kind = "json"
    /\ TitlesIn(hourly[1].data) \cap TitlesIn(hourly[2].data) # {}
    /\ hourly[1].data # hourly[2].data
    /\ sum_hot_from_hours(hourly) = sum_hot_from_summary(summary)
    /\ sum_hot_from_summary(summary) > 0

-----------------------------------------------------------------------------
(* Properties of GET /api/latest, checked under SpecLatest *)

-----------------------------------------------------------------------------
(* Properties of GET /api/latest during a write, checked under SpecServe *)

(* C29 as stated: when a complete snapshot was there before the rewrite  *)
(* of the hour's file began, a request made during the rewrite succeeds   *)
(* and carries the old or the new snapshot whole, never 404 or 500.       *)
C29_RequestDuringWriteSucceeds ==
    (/\ fn_out # <<>>
     /\ fn_in[1].writing
     /\ \E h \in Hours : fn_in[1].before[h].kind = "json") =>
        /\ fn_out[1].code = 200
        /\ fn_out[1].data \in {Some(fn_in[1].before[h].data) : h \in Hours}
                                  \cup {Some(save_hourly_json(words).data)}

(* C29, amended: nothing makes the rewrite atomic.  From the open to the *)
(* close of write_file the hour's file is the newest and is empty or      *)
(* holds a part of the text, so every request made in between is answered *)
(* 404 or 500, also when an older snapshot is there; outside a write a     *)
(* request succeeds whenever an hour file exists.  A success always       *)
(* carries a whole list that save_hourly_json wrote.                      *)
C29_RequestDuringWriteFails ==
    fn_out # <<>> =>
        /\ fn_in[1].writing => /\ fn_out[1].code \in {404, 500}
                               /\ ~fn_out[1].success
                               /\ fn_out[1].data = None
        /\ (/\ ~fn_in[1].writing
            /\ fn_in[1].api.today # None
            /\ \E i \in 1..Len(fn_in[1].api.today[1]) :
                   fn_in[1].api.today[1][i].stem # <<"summary">>) =>
               (fn_out[1].code = 200 /\ fn_out[1].success)
        /\ fn_out[1].code = 200 =>
               \E ws \in {<<>>, <<Earlier(Detail1)>>, <<Earlier(Detail2)>>} :
                   fn_out[1].data = Some(save_hourly_json(ws).data)

C29_Witness ==
    /\ fn_out # <<>>
    /\ fn_in[1].writing
    /\ fn_in[1].before[1].kind = "json" /\ fn_in[1].before[1].data # <<>>
    /\ fn_out[1].code = 500
    /\ pc = "partial"

=============================================================================
